---- MODULE Spec2Model ----
(***************************************************************************)
(* The parallel catalog populator of pdf-to-image-converter                *)
(* (populate_csv_parallel.py): a folder pool whose tasks each run an image *)
(* pool of uploads with retry and backoff, a lock-guarded metrics object,  *)
(* and one catalog write at the end of the run.                            *)
(***************************************************************************)
EXTENDS Integers, Sequences, FiniteSets, TLC

\* ------------------------------------------------------------------ bounds
\* folders found in the output directory
MaxFolders == 2
\* upload tasks of one run, all folders together
MaxUploads == 2
\* images uploaded for the folder of a run over one folder
MaxImages == 3
\* largest worker count given on the command line
MaxWorkers == 2
\* rows already in the catalog file, when there is one
OldRows == 1
\* png files of the folder get_image_files is called on, and the largest
\* skip_last it is called with
MaxListing == 4
MaxSkip == 2
\* pieces a folder name given to parse_folder_name is made of
MaxPieces == 5
\* upload calls that raise in one run, all uploads together
\* PDF files in the source folder, the --workers values, the cpu counts
MaxPdfs == 3
MaxPdfWorkers == 2
MaxCpus == 2

\* eligible images a folder has beyond the media slots
MaxExtra == 1

\* update calls per thread, and get_stats calls, of a run with snapshots
MaxStatsUpdates == 2
MaxSnapshots == 2

\* calls of parse_folder_name made one after the other
MaxParseCalls == 4

\* entries the cache of parse_folder_name holds: lru_cache(maxsize=1000),
\* scaled down
maxsize == 2

MaxRaises == 3
\* retry budgets tried when the upload client is called with an explicit budget
MaxRetryBudget == 3
\* threads and calls per thread of the metrics stress run
MonThreads == 2
MonCalls == 2
\* seconds one successful upload call takes
UploadTime == 1

\* ------------------------------------------------------- program constants
\* upload_to_cloudinary_with_retry(..., max_retries: int = 3, ...)
DefaultMaxRetries == 3
\* get_image_files(folder_path, skip_last=2)
SkipLast == 2
\* image_files[:8] and range(8)
MediaSlots == 8

\* ------------------------------------------------------------------ values
\* Python's None, as returned by Optional[str] functions
None == "None"
\* '' in a media slot
Empty == ""
\* the upload collaborator's answers to one call: it raises, or it returns a
\* response with a secure_url
Responses == {"raise", "url"}
\* the answers the upload client's code allows for: also a response that
\* has no secure_url key
AnyResponses == {"raise", "url", "nourl"}

\* secure_url of the response for image img of folder f: the public_id is
\* built from the folder name and the image stem, so it is fixed per image
SecureUrl(f, img) == "https://cdn/" \o ToString(f) \o "/" \o ToString(img)

\* result.get('secure_url')
GetSecureUrl(out, f, img) ==
    IF out = "url" THEN SecureUrl(f, img)
    ELSE IF out = "emptyurl" THEN Empty
    ELSE None

Min(a, b) == IF a < b THEN a ELSE b

RECURSIVE Pow2(_)
Pow2(n) == IF n = 0 THEN 1 ELSE 2 * Pow2(n - 1)

RECURSIVE SumSeq(_)
SumSeq(s) == IF s = <<>> THEN 0 ELSE Head(s) + SumSeq(Tail(s))

FilterKeepsNone(s) == s

\* [x for x in s if x is not None]
RECURSIVE FilterNotNone(_)
FilterNotNone(s) ==
    IF s = <<>> THEN <<>>
    ELSE IF Head(s) # None THEN <<Head(s)>> \o FilterNotNone(Tail(s))
         ELSE FilterNotNone(Tail(s))

\* ----------------------------------------------- validate_cloudinary_config
required_vars ==
    {"CLOUDINARY_CLOUD_NAME", "CLOUDINARY_API_KEY", "CLOUDINARY_API_SECRET"}

\* what os.getenv gives for a variable: None when it is not set, the empty
\* string, or a value
EnvValues == {None, Empty, "value"}

Environments == [required_vars -> EnvValues]

\* the environment with every credential set
FullEnvironment == [v \in required_vars |-> "value"]

\* not os.getenv(var)
IsMissing(value) == value = None \/ value = Empty

validate_some_present(environ) ==
    \E v \in required_vars : ~IsMissing(environ[v])

\* validate_cloudinary_config(): missing_vars is empty
validate_cloudinary_config(environ) ==
    {v \in required_vars : IsMissing(environ[v])} = {}

\* ------------------------------------------------------ PerformanceMonitor
\* __init__: the counters at 0; the clock reads 0 when the monitor is made
NewMonitor ==
    [start_time |-> 0, processed_folders |-> 0, processed_images |-> 0,
     failed_uploads |-> 0, total_upload_time |-> 0]

update_folder_uncounted(mon, increment) == mon

update_folder(mon, increment) ==
    [mon EXCEPT !.processed_folders = @ + increment]

update_images_uncounted(mon, increment, upload_time) ==
    [mon EXCEPT !.total_upload_time = @ + upload_time]

update_images(mon, increment, upload_time) ==
    [mon EXCEPT !.processed_images = @ + increment,
                !.total_upload_time = @ + upload_time]

update_failed_lost(mon, increment) == mon

update_failed(mon, increment) ==
    [mon EXCEPT !.failed_uploads = @ + increment]

\* ------------------------------------------------------- folder scanning
\* a file is named by its rank in the order of the file names.
\* folder_path.glob('*.png') on a folder of n files: the directory order,
\* which is not the order of the names
Glob(n) == [k \in 1..n |-> n + 1 - k]

\* s with x put before its first element that is larger
RECURSIVE Insert(_, _)
Insert(s, x) ==
    IF s = <<>> THEN <<x>>
    ELSE IF x < Head(s) THEN <<x>> \o s
    ELSE <<Head(s)>> \o Insert(Tail(s), x)

GlobOrder(listing) == listing

\* sorted(listing)
RECURSIVE sorted(_)
sorted(listing) ==
    IF listing = <<>> THEN <<>>
    ELSE Insert(sorted(Tail(listing)), Head(listing))

\* sorted(folder_path.glob('*.png')): the files of a folder, by name
SortedFiles(n) == sorted(Glob(n))

\* s[:stop] of Python: a negative stop counts from the end, and -0 is 0
PySliceTo(s, stop) ==
    LET e == IF stop < 0 THEN (IF Len(s) + stop > 0 THEN Len(s) + stop ELSE 0)
             ELSE Min(stop, Len(s))
    IN SubSeq(s, 1, e)

\* get_image_files(folder_path, skip_last), listing being what glob gives:
\* image_files[:-skip_last] of the sorted files when there are more than
\* skip_last of them
get_image_files(listing, skip_last) ==
    IF Len(sorted(listing)) > skip_last
       THEN PySliceTo(sorted(listing), 0 - skip_last)
       ELSE <<>>

\* image_files used whole
TruncateNothing(s, n) == s

\* image_files[:8]
Truncate(s, n) == PySliceTo(s, n)

\* image_files[:8] of get_image_files(folder_path, skip_last=2), for each
\* number of png files a folder may hold
EligibleTable ==
    [n \in 0..(SkipLast + MediaSlots + MaxExtra) |->
        Truncate(get_image_files(Glob(n), SkipLast), MediaSlots)]

EligibleImages(n) == EligibleTable[n]

\* ------------------------------------------------------------ upload client
\* for attempt in range(max_retries)
InRetryRange(attempt, retries) == attempt >= 0 /\ attempt < retries

IsLastAttemptEarly(attempt, retries) == attempt >= retries - 2

\* if attempt == max_retries - 1
IsLastAttempt(attempt, retries) == attempt = retries - 1

BackoffLinear(attempt) == 2 * attempt

\* time.sleep(2 ** attempt)
Backoff(attempt) == Pow2(attempt)

\* ------------------------------------------------------------------- pools
PoolSizeUnclamped(max_workers, n) == n

\* ThreadPoolExecutor(max_workers=min(max_workers, len(image_files)))
PoolSize(max_workers, n) == Min(max_workers, n)

WorkerFreeAlways(running, size) == TRUE

WorkerFreeButOne(running, size) == running + 1 < size

\* a pool starts a queued task only on one of its max_workers threads
WorkerFree(running, size) == running < size

StoreResultByCompletion(res, index, k, url) == [res EXCEPT ![k + 1] = url]

\* results[index] = url, k results being stored already
StoreResult(res, index, k, url) == [res EXCEPT ![index] = url]

MediaSlotByIndex(results, media_urls, i) ==
    IF i <= Len(results) /\ results[i] # None THEN results[i] ELSE Empty

\* product_data[media_key] = media_urls[i] if i < len(media_urls) else ''
\* (i counts from 1 here; results is the by-index list the urls came from)
MediaSlot(results, media_urls, i) ==
    IF i <= Len(media_urls) THEN media_urls[i] ELSE Empty

RunSuccessAlways(new_products, folders) == TRUE

\* return len(new_products) == len(folders)
RunSuccess(new_products, folders) == Len(new_products) = Len(folders)

\* ------------------------------------------------------- parse_folder_name
\* a text is the sequence of its characters
Digit == {"0", "1", "2", "3", "4", "5", "6", "7", "8", "9"}

\* \s of the regular expressions (folder names hold no line break)
IsSpace(c) == c \in {" ", "\t"}

\* [0-9.]
IsCostChar(c) == c \in Digit \cup {"."}

\* first position from i on whose character is not matched by [0-9.]
RECURSIVE SkipCost(_, _)
SkipCost(s, i) ==
    IF i <= Len(s) /\ IsCostChar(s[i]) THEN SkipCost(s, i + 1) ELSE i

\* first position from i on whose character is not matched by \s
RECURSIVE SkipSpace(_, _)
SkipSpace(s, i) ==
    IF i <= Len(s) /\ IsSpace(s[i]) THEN SkipSpace(s, i + 1) ELSE i

\* where the - of RS=[0-9.]+\s*- would stand for a match that starts at i
DashAt(s, i) == SkipSpace(s, SkipCost(s, i + 3))

\* RS=([0-9.]+)\s*- matches at position i
CostMatchAt(s, i) ==
    /\ i + 2 <= Len(s)
    /\ SubSeq(s, i, i + 2) = <<"R", "S", "=">>
    /\ SkipCost(s, i + 3) > i + 3
    /\ DashAt(s, i) <= Len(s)
    /\ s[DashAt(s, i)] = "-"

\* RS=[0-9.]+\s*-\s*(.+) matches at position i: (.+) needs a character
NameMatchAt(s, i) == CostMatchAt(s, i) /\ DashAt(s, i) < Len(s)

\* re.search: the leftmost match
Leftmost(S) == CHOOSE i \in S : \A j \in S : i <= j

\* str.strip()
RECURSIVE Strip(_)
Strip(s) ==
    IF s # <<>> /\ IsSpace(s[1]) THEN Strip(Tail(s))
    ELSE IF s # <<>> /\ IsSpace(s[Len(s)]) THEN Strip(SubSeq(s, 1, Len(s) - 1))
    ELSE s

\* group 1 of the name match at i: \s* takes the blanks after the -, and
\* gives the last one back when nothing else is left for (.+)
NameGroup(s, i) ==
    LET e == SkipSpace(s, DashAt(s, i) + 1)
    IN IF e <= Len(s) THEN SubSeq(s, e, Len(s)) ELSE SubSeq(s, Len(s), Len(s))

\* parse_folder_name(folder_name): <<product_name, cost_price>>
parse_folder_name(folder_name) ==
    LET cost_matches == {i \in 1..Len(folder_name) : CostMatchAt(folder_name, i)}
        name_matches == {i \in 1..Len(folder_name) : NameMatchAt(folder_name, i)}
        cost_price ==
            IF cost_matches # {}
               THEN SubSeq(folder_name, Leftmost(cost_matches) + 3,
                           SkipCost(folder_name, Leftmost(cost_matches) + 3) - 1)
               ELSE <<>>
        product_name ==
            IF name_matches # {}
               THEN Strip(NameGroup(folder_name, Leftmost(name_matches)))
               ELSE folder_name
    IN <<product_name, cost_price>>

\* ---------------------------------------------------------- catalog cells
DigitValue(c) ==
    CASE c = "0" -> 0 [] c = "1" -> 1 [] c = "2" -> 2 [] c = "3" -> 3
      [] c = "4" -> 4 [] c = "5" -> 5 [] c = "6" -> 6 [] c = "7" -> 7
      [] c = "8" -> 8 [] c = "9" -> 9

DigitChar(d) == <<"0", "1", "2", "3", "4", "5", "6", "7", "8", "9">>[d + 1]

\* the cell texts pandas.read_csv reads as a missing value (the ones made of
\* letters and the empty cell)
NaTexts ==
    {<<>>, <<"N", "A">>, <<"N", "a", "N">>, <<"n", "a", "n">>,
     <<"N", "U", "L", "L">>, <<"n", "u", "l", "l">>, <<"N", "o", "n", "e">>,
     <<"N", "/", "A">>, <<"n", "/", "a">>}

IsNaText(s) == s \in NaTexts

\* a cell read_csv can parse as an integer: digits only
IsIntText(s) == Len(s) > 0 /\ \A i \in 1..Len(s) : s[i] \in Digit

\* a cell read_csv can parse as a number: digits with at most one point
IsFloatText(s) ==
    /\ \A i \in 1..Len(s) : s[i] \in Digit \cup {"."}
    /\ \E i \in 1..Len(s) : s[i] \in Digit
    /\ Cardinality({i \in 1..Len(s) : s[i] = "."}) <= 1

\* the number a sequence of digits denotes
RECURSIVE IntValue(_)
IntValue(s) ==
    IF s = <<>> THEN 0
    ELSE 10 * IntValue(SubSeq(s, 1, Len(s) - 1)) + DigitValue(s[Len(s)])

\* the digits of a natural number, without leading zeros
RECURSIVE IntText(_)
IntText(n) ==
    IF n < 10 THEN <<DigitChar(n)>>
    ELSE IntText(n \div 10) \o <<DigitChar(n % 10)>>

\* digits after the point, without the trailing zeros
RECURSIVE StripZeros(_)
StripZeros(s) ==
    IF s # <<>> /\ s[Len(s)] = "0" THEN StripZeros(SubSeq(s, 1, Len(s) - 1))
    ELSE s

\* position of the point of a number text, Len + 1 when it has none
PointAt(s) ==
    IF \E i \in 1..Len(s) : s[i] = "."
       THEN CHOOSE i \in 1..Len(s) : s[i] = "."
       ELSE Len(s) + 1

\* values of a DataFrame cell: a str, an int64, a float64, or NaN
StrVal(s) == [t |-> "str", s |-> s, n |-> 0, frac |-> <<>>]

IntVal(n) == [t |-> "int", s |-> <<>>, n |-> n, frac |-> <<>>]

FloatVal(n, frac) == [t |-> "float", s |-> <<>>, n |-> n, frac |-> frac]

NaN == [t |-> "nan", s |-> <<>>, n |-> 0, frac |-> <<>>]

\* float(text): the whole part and the digits after the point that count
ParseFloat(s) ==
    FloatVal(IntValue(SubSeq(s, 1, PointAt(s) - 1)),
             StripZeros(SubSeq(s, PointAt(s) + 1, Len(s))))

\* the dtype read_csv infers for a column from its cells
ColumnKind(cells) ==
    IF cells # <<>> /\ \A i \in 1..Len(cells) : IsIntText(cells[i])
       THEN "int"
    ELSE IF \A i \in 1..Len(cells) :
               IsNaText(cells[i]) \/ IsFloatText(cells[i])
       THEN "float"
    ELSE "str"

\* read_csv on one cell of a column of the given dtype
ReadCell(kind, s) ==
    IF kind = "int" THEN IntVal(IntValue(s))
    ELSE IF IsNaText(s) THEN NaN
    ELSE IF kind = "float" THEN ParseFloat(s)
    ELSE StrVal(s)

\* to_csv on one cell: str(value), and the empty text for NaN
WriteCell(v) ==
    CASE v.t = "str" -> v.s
      [] v.t = "nan" -> <<>>
      [] v.t = "int" -> IntText(v.n)
      [] v.t = "float" ->
            IntText(v.n) \o <<".">> \o (IF v.frac = <<>> THEN <<"0">> ELSE v.frac)

\* a media cell that read_csv found empty
MediaNaN == "nan"

ReadMedia(c) == IF c = Empty THEN MediaNaN ELSE c

WriteMedia(v) == IF v = MediaNaN THEN Empty ELSE v

\* pd.read_csv(csv_path): the rows of the file as a DataFrame
read_csv(rows) ==
    LET name_kind == ColumnKind([k \in 1..Len(rows) |-> rows[k].name])
        cost_kind == ColumnKind([k \in 1..Len(rows) |-> rows[k].cost_price])
    IN [k \in 1..Len(rows) |->
          [folder |-> rows[k].folder,
           name |-> ReadCell(name_kind, rows[k].name),
           cost_price |-> ReadCell(cost_kind, rows[k].cost_price),
           media |-> [i \in 1..MediaSlots |-> ReadMedia(rows[k].media[i])]]]

\* df.to_csv(csv_path, index=False): the rows written to the file
to_csv(frame) ==
    [k \in 1..Len(frame) |->
       [folder |-> frame[k].folder,
        name |-> WriteCell(frame[k].name),
        cost_price |-> WriteCell(frame[k].cost_price),
        media |-> [i \in 1..MediaSlots |-> WriteMedia(frame[k].media[i])]]]

\* ------------------------------------------------------------------- state
VARIABLES
    pc,                  \* where the main thread is
    exit_status,         \* <<>> while running, <<code>> once the process exited
    max_folder_workers,  \* --max-folder-workers
    max_image_workers,   \* --max-image-workers
    max_retries,         \* retry budget the upload client is called with
    env,                 \* os.environ, as far as the credentials go
    folders,             \* folders[f]: number of png files in discovered folder f
    csv_exists,          \* the catalog file is on disk
    csv_rows,            \* rows of the catalog file on disk
    csv_writes,          \* number of df.to_csv calls
    df,                  \* the DataFrame of populate_csv_parallel
    loaded,              \* rows read from the catalog file at load time
    new_products,        \* list returned by process_folders_in_batches
    fstate,              \* per folder future: queued, uploading, done, raised
    image_files,         \* per folder: image_files passed to the image uploader
    uploads,             \* per folder: its upload futures, in submission order
    results,             \* per folder: results list of upload_images_concurrently
    collected,           \* per folder: upload futures as_completed has yielded
    media_urls,          \* per folder: list upload_images_concurrently returned
    product,             \* per folder: product_data returned by the folder task
    fcollected,          \* folder futures the orchestrator's as_completed yielded
    perf_monitor,        \* the global PerformanceMonitor
    lock,                \* perf_monitor.lock: 0 when free, else the holder
    stress,              \* threads of the metrics stress run
    call,                \* a function called on its own, and its arguments
    ret,                 \* <<>>, or <<what the call returned>>
    reader,              \* the thread that calls perf_monitor.get_stats
    finished_futures,    \* folder futures, in the order they finished
    as_completed,        \* <<>>, or <<finished>>: the orchestrator's
                         \* as_completed has started, and finished holds
                         \* the futures that were done by then and that it
                         \* has not yielded yet
    cache,               \* the lru_cache of parse_folder_name: its entries,
                         \* the least recently used one first
    cache_info,          \* parse_folder_name.cache_info(): hits and misses
    parse_calls,         \* the arguments parse_folder_name was called with
    pdf_pc,              \* where process_all_pdfs of main.py is
    pdf_files,           \* per discovered PDF: what converting it comes to
    workers,             \* workers of process_all_pdfs
    pdf_jobs,            \* per discovered PDF: its process_single_pdf job
    successful,          \* counter of process_all_pdfs
    failed,              \* counter of process_all_pdfs
    total_pages          \* counter of process_all_pdfs

mainVars == <<pc, exit_status>>

argVars == <<max_folder_workers, max_image_workers, max_retries, env>>

catalogVars == <<csv_exists, csv_rows, csv_writes, df, loaded>>

folderVars == <<fstate, image_files, results, collected, media_urls, product>>

monitorVars == <<perf_monitor, lock, stress, reader>>

callVars == <<call, ret>>

orderVars == <<finished_futures, as_completed>>

cacheVars == <<cache, cache_info, parse_calls>>

pdfVars ==
    <<pdf_pc, pdf_files, workers, pdf_jobs, successful, failed, total_pages>>

vars ==
    <<mainVars, argVars, catalogVars, folders, new_products, fcollected,
      folderVars, uploads, monitorVars, callVars, orderVars, cacheVars,
      pdfVars>>

\* no function is called on its own
NoCall == [fn |-> "none", args |-> <<>>]

Folders == 1..Len(folders)

\* the names of the folders of a run: the documented format, a name without
\* the pattern, a cost without a point
FolderNames ==
    <<(<<"R", "S", "=", "1", "0", "2", "5", ".", "0", "0", " ", "-", " ", "A">>),
      (<<"B">>),
      (<<"R", "S", "=", "7", " ", "-", " ", "C">>)>>

\* which of the names discovered folder f has
NameIndex(f) == ((f - 1) % Len(FolderNames)) + 1

\* folder_path.name of discovered folder f
FolderName(f) == FolderNames[NameIndex(f)]

\* parse_folder_name of each of the names
ParsedNames == [k \in 1..Len(FolderNames) |-> parse_folder_name(FolderNames[k])]

\* product_info = parse_folder_name(folder_path.name) of discovered folder f
product_info(f) == ParsedNames[NameIndex(f)]

\* -------------------------------------------- the cache of parse_folder_name
\* cache_info() of a cache that was never used
NoCacheInfo == [hits |-> 0, misses |-> 0]

\* the place of the entry of key, 0 when the cache has none
CacheFind(entries, key) ==
    IF \E i \in 1..Len(entries) : entries[i].key = key
       THEN CHOOSE i \in 1..Len(entries) : entries[i].key = key
       ELSE 0

RemoveAt(s, i) == SubSeq(s, 1, i - 1) \o SubSeq(s, i + 1, Len(s))

\* a hit that leaves the entry where it is: first in, first out
CacheHitKeepsPlace(entries, i) == entries

\* a hit makes the entry the most recently used one
CacheHit(entries, i) == Append(RemoveAt(entries, i), entries[i])

\* a miss stores the computed result as the most recently used entry; a full
\* cache drops its least recently used entry first
CacheMiss(entries, key, result, size) ==
    Append(IF Len(entries) >= size THEN Tail(entries) ELSE entries,
           [key |-> key, result |-> result])

\* what the decorated parse_folder_name(key) returns, computed being what the
\* undecorated function gives for key
CachedResult(key, computed) ==
    LET i == CacheFind(cache, key)
    IN IF i > 0 THEN cache[i].result ELSE computed

\* what the decorated parse_folder_name(key) does to its cache
CachedCall(key, computed) ==
    LET i == CacheFind(cache, key)
    IN /\ parse_calls' = Append(parse_calls, key)
       /\ IF i > 0
             THEN /\ cache' = CacheHit(cache, i)
                  /\ cache_info' = [cache_info EXCEPT !.hits = @ + 1]
             ELSE /\ cache' = CacheMiss(cache, key, computed, maxsize)
                  /\ cache_info' = [cache_info EXCEPT !.misses = @ + 1]

\* a catalog row that was in the file before the run, with the name and the
\* cost_price cell given and no media
CatalogRow(k, name, cost_price) ==
    [folder |-> 0 - k, name |-> name, cost_price |-> cost_price,
     media |-> [i \in 1..MediaSlots |-> Empty]]

\* the row an earlier run wrote for a folder named RS=1025.00 - OLD
OldRow(k) ==
    CatalogRow(k, <<"O", "L", "D">>, <<"1", "0", "2", "5", ".", "0", "0">>)

OldCatalog == [k \in 1..OldRows |-> OldRow(k)]

\* an upload future that was submitted and not started
NewUpload(i, img) ==
    [index |-> i, image |-> img, st |-> "queued", attempt |-> 0, calls |-> 0,
     ret |-> None, waits |-> <<>>, outcome |-> "pending"]

\* a thread of the stress run that has made no call yet
IdleThread == [pc |-> "idle", calls |-> 0, field |-> "none", tmp |-> 0]

\* a thread that has not called get_stats yet
IdleReader == [pc |-> "idle", calls |-> 0, elapsed |-> 0, reads |-> <<>>]

\* process_all_pdfs is not called
NoPdfRun ==
    /\ pdf_pc = "none"
    /\ pdf_files = <<>>
    /\ workers = 0
    /\ pdf_jobs = <<>>
    /\ successful = 0
    /\ failed = 0
    /\ total_pages = 0

\* the state at the start of main, the catalog file holding the given rows,
\* or being absent
InitWith(exists, rows) ==
    /\ pc = "args"
    /\ exit_status = <<>>
    /\ max_folder_workers = 0
    /\ max_image_workers = 0
    /\ folders = <<>>
    /\ csv_exists = exists
    /\ csv_rows = IF exists THEN rows ELSE <<>>
    /\ csv_writes = 0
    /\ df = <<>>
    /\ loaded = <<>>
    /\ new_products = <<>>
    /\ fstate = <<>>
    /\ image_files = <<>>
    /\ uploads = <<>>
    /\ results = <<>>
    /\ collected = <<>>
    /\ media_urls = <<>>
    /\ product = <<>>
    /\ fcollected = {}
    /\ perf_monitor = NewMonitor
    /\ lock = 0
    /\ stress = [w \in 1..MonThreads |-> IdleThread]
    /\ reader = IdleReader
    /\ ret = <<>>
    /\ finished_futures = <<>>
    /\ as_completed = <<>>
    /\ cache = <<>>
    /\ cache_info = NoCacheInfo
    /\ parse_calls = <<>>
    /\ NoPdfRun

InitCommon ==
    /\ \E exists \in BOOLEAN : InitWith(exists, OldCatalog)
    /\ env \in Environments
    /\ call = NoCall

\* the program as it runs: the upload client is called with its default budget
Init == InitCommon /\ max_retries = DefaultMaxRetries

\* ------------------------------------------------------------ main thread
Exit(code) == pc' = "exit" /\ exit_status' = <<code>>

\* main: parse the arguments and validate the worker counts
ParseArgs ==
    /\ pc = "args"
    /\ \E fw \in 0..MaxWorkers, iw \in 0..MaxWorkers :
          /\ max_folder_workers' = fw
          /\ max_image_workers' = iw
          /\ IF fw < 1 \/ fw > 50 \/ iw < 1 \/ iw > 20
                THEN Exit(1)
                ELSE pc' = "validate" /\ UNCHANGED exit_status
    /\ UNCHANGED <<max_retries, env, pdfVars, catalogVars, folders, new_products, fcollected,
                   folderVars, uploads, monitorVars, cacheVars, callVars, orderVars>>

\* populate_csv_parallel: validate_cloudinary_config, sys.exit(1) if it fails
ValidateConfig ==
    /\ pc = "validate"
    /\ IF validate_cloudinary_config(env)
          THEN pc' = "check_output" /\ UNCHANGED exit_status
          ELSE Exit(1)
    /\ UNCHANGED <<argVars, pdfVars, catalogVars, folders, new_products, fcollected,
                   folderVars, uploads, monitorVars, cacheVars, callVars, orderVars>>

\* populate_csv_parallel: return False if the output folder does not exist
CheckOutput ==
    /\ pc = "check_output"
    /\ \E exists \in BOOLEAN :
          IF exists THEN pc' = "read_csv" /\ UNCHANGED exit_status ELSE Exit(1)
    /\ UNCHANGED <<argVars, pdfVars, catalogVars, folders, new_products, fcollected,
                   folderVars, uploads, monitorVars, cacheVars, callVars, orderVars>>

\* populate_csv_parallel: read the catalog, or start an empty one; a read
\* error returns False
ReadCsv ==
    /\ pc = "read_csv"
    /\ \E readable \in BOOLEAN :
          IF csv_exists /\ ~readable
             THEN Exit(1) /\ UNCHANGED <<df, loaded>>
             ELSE /\ pc' = "list"
                  /\ df' = read_csv(csv_rows)
                  /\ loaded' = csv_rows
                  /\ UNCHANGED exit_status
    /\ UNCHANGED <<argVars, pdfVars, csv_exists, csv_rows, csv_writes, folders,
                   new_products, fcollected, folderVars, uploads, monitorVars,
                   cacheVars, callVars, orderVars>>

RECURSIVE TotalEligible(_)
TotalEligible(fl) ==
    IF fl = <<>> THEN 0
    ELSE Len(EligibleImages(Head(fl))) + TotalEligible(Tail(fl))

\* populate_csv_parallel: list the folders, fl[f] being the number of png
\* files of folder f; none: return True. Otherwise
\* process_folders_in_batches submits one folder task per folder
ListThese(fl) ==
    /\ pc = "list"
    /\ folders' = fl
    /\ IF fl = <<>>
          THEN Exit(0) /\ UNCHANGED <<folderVars, uploads>>
          ELSE /\ pc' = "process"
               /\ fstate' = [f \in 1..Len(fl) |-> "queued"]
               /\ image_files' = [f \in 1..Len(fl) |-> <<>>]
               /\ uploads' = [f \in 1..Len(fl) |-> <<>>]
               /\ results' = [f \in 1..Len(fl) |-> <<>>]
               /\ collected' = [f \in 1..Len(fl) |-> {}]
               /\ media_urls' = [f \in 1..Len(fl) |-> <<>>]
               /\ product' = [f \in 1..Len(fl) |-> <<>>]
               /\ UNCHANGED exit_status
    /\ UNCHANGED <<argVars, pdfVars, catalogVars, new_products, fcollected, monitorVars,
                   cacheVars, callVars, orderVars>>

\* the folders of a run, up to maxFolders of them with up to maxUploads
\* images to upload between them. A folder with fewer than SkipLast files is
\* scanned like one with SkipLast files
ListFolders(maxFolders, maxUploads) ==
    /\ pc = "list"
    /\ \E n \in 0..maxFolders :
       \E fl \in [1..n -> SkipLast..(SkipLast + maxUploads)] :
          /\ TotalEligible(fl) <= maxUploads
          /\ ListThese(fl)

\* ------------------------------------------------------------- folder pool
\* uploads of folder f that hold a thread of its image pool: in the retry
\* loop, or inside an upload call that never returns
Running(f) ==
    {j \in 1..Len(uploads[f]) : uploads[f][j].st \in {"running", "stuck"}}

InFlightFolders == {f \in Folders : fstate[f] = "uploading"}

\* the pool's work queue is first in, first out
FirstQueuedFolder(f) ==
    /\ fstate[f] = "queued"
    /\ \A g \in 1..(f - 1) : fstate[g] # "queued"

\* executor.submit(upload_to_cloudinary_with_retry, image_file, folder_name)
\* for i, image_file in enumerate(image_files)
SubmitAll(imgs) == [i \in 1..Len(imgs) |-> NewUpload(i, imgs[i])]

\* process_folder_parallel up to the point where it waits for its uploads:
\* parse the name, list the images, keep the first 8, submit one upload each
FolderStart(f) ==
    /\ pc = "process"
    /\ FirstQueuedFolder(f)
    /\ WorkerFree(Cardinality(InFlightFolders), max_folder_workers)
    /\ LET imgs == EligibleImages(folders[f]) IN
          /\ image_files' = [image_files EXCEPT ![f] = imgs]
          /\ uploads' = [uploads EXCEPT ![f] = SubmitAll(imgs)]
          /\ results' = [results EXCEPT ![f] = [i \in 1..Len(imgs) |-> None]]
    /\ fstate' = [fstate EXCEPT ![f] = "uploading"]
    /\ CachedCall(FolderName(f), product_info(f))
    /\ UNCHANGED <<mainVars, argVars, pdfVars, catalogVars, folders, new_products,
                   fcollected, collected, media_urls, product, monitorVars,
                   callVars, orderVars>>

\* process_folder_parallel raises before it dispatches an upload (the image
\* pool cannot start a thread): the folder future holds the exception
FolderRaise(f) ==
    /\ pc = "process"
    /\ FirstQueuedFolder(f)
    /\ WorkerFree(Cardinality(InFlightFolders), max_folder_workers)
    /\ fstate' = [fstate EXCEPT ![f] = "raised"]
    /\ finished_futures' = Append(finished_futures, f)
    /\ CachedCall(FolderName(f), product_info(f))
    /\ UNCHANGED <<mainVars, argVars, pdfVars, catalogVars, folders, new_products,
                   fcollected, image_files, results, collected, media_urls,
                   product, uploads, monitorVars, callVars, as_completed>>

\* -------------------------------------------------------------- image pool
\* a thread of the folder's image pool takes the next upload from the queue
\* and enters upload_to_cloudinary_with_retry; an empty range(max_retries)
\* falls through to the final return None
UploadStart(f, j) ==
    /\ uploads[f][j].st = "queued"
    /\ \A k \in 1..(j - 1) : uploads[f][k].st # "queued"
    /\ WorkerFree(Cardinality(Running(f)),
                  PoolSize(max_image_workers, Len(image_files[f])))
    /\ uploads' = [uploads EXCEPT ![f][j] =
          IF InRetryRange(0, max_retries)
             THEN [@ EXCEPT !.st = "running"]
             ELSE [@ EXCEPT !.st = "done", !.ret = None,
                            !.outcome = "fellthrough"]]
    /\ UNCHANGED <<mainVars, argVars, pdfVars, catalogVars, folders, new_products,
                   fcollected, folderVars, monitorVars, cacheVars, callVars, orderVars>>

\* upload calls of the futures from..Len(futures) that raised
RECURSIVE RaisedIn(_, _)
RaisedIn(futures, from) ==
    IF from > Len(futures) THEN 0
    ELSE futures[from].calls
         - (IF futures[from].outcome = "returned" THEN 1 ELSE 0)
         + RaisedIn(futures, from + 1)

\* upload calls of folders 1..n that raised
RECURSIVE RaisedUpTo(_)
RaisedUpTo(n) ==
    IF n = 0 THEN 0 ELSE RaisedIn(uploads[n], 1) + RaisedUpTo(n - 1)

\* one pass of the retry loop of upload_to_cloudinary_with_retry: the upload
\* call, then either update_images and return the url, or the except branch:
\* update_failed and return None on the last attempt, else sleep and go on
UploadAttempt(f, j, responses) ==
    /\ uploads[f][j].st = "running"
    /\ \E out \in responses :
       LET t == uploads[f][j] IN
       /\ out = "raise" => RaisedUpTo(Len(uploads)) < MaxRaises
       /\ IF out # "raise"
          THEN /\ perf_monitor' = update_images(perf_monitor, 1, UploadTime)
               /\ uploads' = [uploads EXCEPT ![f][j] =
                     [t EXCEPT !.st = "done", !.calls = @ + 1,
                               !.ret = GetSecureUrl(out, f, t.image),
                               !.outcome = "returned"]]
          ELSE IF IsLastAttempt(t.attempt, max_retries)
          THEN /\ perf_monitor' = update_failed(perf_monitor, 1)
               /\ uploads' = [uploads EXCEPT ![f][j] =
                     [t EXCEPT !.st = "done", !.calls = @ + 1,
                               !.ret = None, !.outcome = "exhausted"]]
          ELSE /\ perf_monitor' = perf_monitor
               /\ uploads' = [uploads EXCEPT ![f][j] =
                     IF InRetryRange(t.attempt + 1, max_retries)
                        THEN [t EXCEPT !.calls = @ + 1, !.attempt = @ + 1,
                                       !.waits = Append(@, Backoff(t.attempt))]
                        ELSE [t EXCEPT !.st = "done", !.calls = @ + 1,
                                       !.attempt = @ + 1, !.ret = None,
                                       !.waits = Append(@, Backoff(t.attempt)),
                                       !.outcome = "fellthrough"]]
    /\ UNCHANGED <<mainVars, argVars, pdfVars, catalogVars, folders, new_products,
                   fcollected, folderVars, lock, stress, reader, cacheVars, callVars, orderVars>>

AllCollectedAlways(done, futures) == TRUE

\* for future in as_completed(future_to_index) has yielded every future, and
\* the with block of the executor has joined its threads
AllCollected(done, futures) == done = 1..Len(futures)

\* upload_images_concurrently: as_completed yields a finished upload and its
\* url is stored at the index the future was submitted with
CollectUpload(f, j) ==
    /\ fstate[f] = "uploading"
    /\ uploads[f][j].st = "done"
    /\ j \notin collected[f]
    /\ results' = [results EXCEPT ![f] =
          StoreResult(@, uploads[f][j].index, Cardinality(collected[f]),
                      uploads[f][j].ret)]
    /\ collected' = [collected EXCEPT ![f] = @ \cup {j}]
    /\ UNCHANGED <<mainVars, argVars, pdfVars, catalogVars, folders, new_products,
                   fcollected, fstate, image_files, media_urls, product,
                   uploads, monitorVars, cacheVars, callVars, orderVars>>

\* product_data of process_folder_parallel: the media_1..media_8 slots
ProductData(f, res, urls) ==
    [folder |-> f,
     name |-> StrVal(product_info(f)[1]),
     cost_price |-> StrVal(product_info(f)[2]),
     media |-> [i \in 1..MediaSlots |-> MediaSlot(res, urls, i)]]

\* upload_images_concurrently returns the urls that are not None, then
\* process_folder_parallel builds the record and calls update_folder
FolderAssemble(f) ==
    /\ fstate[f] = "uploading"
    /\ AllCollected(collected[f], uploads[f])
    /\ media_urls' = [media_urls EXCEPT ![f] = FilterNotNone(results[f])]
    /\ product' = [product EXCEPT ![f] =
          <<ProductData(f, results[f], FilterNotNone(results[f]))>>]
    /\ perf_monitor' = update_folder(perf_monitor, 1)
    /\ fstate' = [fstate EXCEPT ![f] = "done"]
    /\ finished_futures' = Append(finished_futures, f)
    /\ UNCHANGED <<mainVars, argVars, pdfVars, catalogVars, folders, new_products,
                   fcollected, image_files, results, collected, uploads,
                   lock, stress, reader, cacheVars, callVars, as_completed>>

CollectResultKeepsOne(list, st, rec) ==
    IF st = "done" THEN <<rec[1]>> ELSE list

\* try: new_products.append(future.result()); except Exception: log
CollectResult(list, st, rec) ==
    IF st = "done" THEN Append(list, rec[1]) ELSE list

\* process_folders_in_batches: for future in as_completed(future_to_folder)
\* starts after every folder was submitted; the futures that have finished
\* by then make its set finished, which it yields first
AsCompletedStart ==
    /\ pc = "process"
    /\ as_completed = <<>>
    /\ as_completed' = <<{f \in Folders : fstate[f] \in {"done", "raised"}}>>
    /\ UNCHANGED <<mainVars, argVars, pdfVars, catalogVars, folders, new_products,
                   fcollected, folderVars, uploads, monitorVars, cacheVars, callVars,
                   finished_futures>>

\* position of future f in the sequence order
PositionIn(order, f) == CHOOSE i \in 1..Len(order) : order[i] = f

YieldsAnyFinished(f, finished, order, yielded) ==
    \E i \in 1..Len(order) : order[i] = f

\* as_completed yields f next: the futures of finished, which were done when
\* it started, come out of a set, in any order; after them the futures come
\* in the order they finished
Yields(f, finished, order, yielded) ==
    /\ \E i \in 1..Len(order) : order[i] = f
    /\ IF finished = {}
          THEN \A i \in 1..(PositionIn(order, f) - 1) : order[i] \in yielded
          ELSE f \in finished

\* process_folders_in_batches: as_completed yields a finished folder future;
\* its record is appended, or its exception is logged
CollectFolder(f) ==
    /\ pc = "process"
    /\ as_completed # <<>>
    /\ f \notin fcollected
    /\ Yields(f, as_completed[1], finished_futures, fcollected)
    /\ as_completed' = <<as_completed[1] \ {f}>>
    /\ new_products' = CollectResult(new_products, fstate[f], product[f])
    /\ fcollected' = fcollected \cup {f}
    /\ UNCHANGED <<mainVars, argVars, pdfVars, catalogVars, folders, folderVars,
                   uploads, monitorVars, cacheVars, callVars, finished_futures>>

AllFoldersCollectedAlways(done, n) == TRUE

\* the as_completed loop of process_folders_in_batches is over
AllFoldersCollected(done, n) == done = 1..n

\* process_folders_in_batches returns; populate_csv_parallel appends the new
\* records to the DataFrame, writes the catalog if there are any, and
\* returns whether every folder gave a record; main exits with 0 or 1
Finish ==
    /\ pc = "process"
    /\ AllFoldersCollected(fcollected, Len(folders))
    /\ IF new_products # <<>>
          THEN /\ df' = df \o new_products
               /\ csv_rows' = to_csv(df \o new_products)
               /\ csv_exists' = TRUE
               /\ csv_writes' = csv_writes + 1
          ELSE UNCHANGED <<df, csv_rows, csv_exists, csv_writes>>
    /\ Exit(IF RunSuccess(new_products, folders) THEN 0 ELSE 1)
    /\ UNCHANGED <<argVars, pdfVars, loaded, folders, new_products, fcollected,
                   folderVars, uploads, monitorVars, cacheVars, callVars, orderVars>>

\* every step of a run but the listing of the folders
Step(responses) ==
    \/ ParseArgs
    \/ ValidateConfig
    \/ CheckOutput
    \/ ReadCsv
    \/ \E f \in Folders : FolderStart(f)
    \/ \E f \in Folders : FolderRaise(f)
    \/ \E f \in Folders : \E j \in 1..Len(uploads[f]) : UploadStart(f, j)
    \/ \E f \in Folders : \E j \in 1..Len(uploads[f]) :
          UploadAttempt(f, j, responses)
    \/ \E f \in Folders : \E j \in 1..Len(uploads[f]) : CollectUpload(f, j)
    \/ \E f \in Folders : FolderAssemble(f)
    \/ AsCompletedStart
    \/ \E f \in Folders : CollectFolder(f)
    \/ Finish

\* a run over up to MaxFolders folders
Next == ListFolders(MaxFolders, MaxUploads) \/ Step(Responses)

Spec == Init /\ [][Next]_vars

\* a run over at most one folder, of up to MaxImages uploaded images
NextFolder == ListFolders(1, MaxImages) \/ Step(AnyResponses)

SpecFolder == Init /\ [][NextFolder]_vars

\* a run over at most one folder whose uploads are called with an explicit
\* retry budget
InitUpload == InitCommon /\ max_retries \in 0..MaxRetryBudget

NextUpload == ListFolders(1, MaxUploads) \/ Step(AnyResponses)

SpecUpload == InitUpload /\ [][NextUpload]_vars

\* ------------------------------------------------ functions on their own
\* what glob may give for a folder of n png files: the files in any order
Listings(n) == {l \in [1..n -> 1..n] : \A i, j \in 1..n : l[i] = l[j] => i = j}

\* the pieces folder names are made of
Pieces == {<<"R", "S", "=">>, <<"1">>, <<".">>, <<"-">>, <<" ">>, <<"A">>}

RECURSIVE Flatten(_)
Flatten(ps) == IF ps = <<>> THEN <<>> ELSE Head(ps) \o Flatten(Tail(ps))

\* the folder names of up to MaxPieces pieces
Names(maxPieces) ==
    UNION {{Flatten(ps) : ps \in [1..n -> Pieces]} : n \in 0..maxPieces}

\* the calls of get_image_files and of parse_folder_name
Calls(maxListing, maxSkip, maxPieces) ==
    UNION {{[fn |-> "get_image_files", args |-> <<l, k>>] :
               l \in Listings(n), k \in 0..maxSkip} : n \in 0..maxListing}
    \cup {[fn |-> "parse_folder_name", args |-> <<name>>] :
              name \in Names(maxPieces)}

InitCalls ==
    /\ InitWith(FALSE, <<>>)
    /\ max_retries = DefaultMaxRetries
    /\ env = FullEnvironment
    /\ call \in Calls(MaxListing, MaxSkip, MaxPieces)

\* everything but the result of the call
runVars ==
    <<mainVars, argVars, pdfVars, catalogVars, folders, new_products, fcollected,
      folderVars, uploads, monitorVars, call, orderVars>>

\* get_image_files(folder_path, skip_last) returns
CallGetImageFiles ==
    /\ call.fn = "get_image_files"
    /\ ret = <<>>
    /\ ret' = <<get_image_files(call.args[1], call.args[2])>>
    /\ UNCHANGED <<runVars, cacheVars>>

\* parse_folder_name(folder_name) returns
CallParseFolderName ==
    /\ call.fn = "parse_folder_name"
    /\ ret = <<>>
    /\ LET computed == parse_folder_name(call.args[1])
       IN /\ ret' = <<CachedResult(call.args[1], computed)>>
          /\ CachedCall(call.args[1], computed)
    /\ UNCHANGED runVars

NextCalls == CallGetImageFiles \/ CallParseFolderName

SpecCalls == InitCalls /\ [][NextCalls]_vars

\* ------------------------------------------- parse_folder_name, repeatedly
\* the folder names parse_folder_name is called with in a loop
CacheNames ==
    FolderNames \o <<(<<"R", "S", "=", "2", "5", "5", " ", "-", " ", "T", "P">>)>>

\* what the undecorated parse_folder_name gives for each of them
ParsedCacheNames ==
    [k \in 1..Len(CacheNames) |-> parse_folder_name(CacheNames[k])]

InitCache ==
    /\ InitWith(FALSE, <<>>)
    /\ max_retries = DefaultMaxRetries
    /\ env = FullEnvironment
    /\ call = NoCall

\* name, cost = parse_folder_name(folder_name), for the k-th of the names
CallCached(k) ==
    /\ Len(parse_calls) < MaxParseCalls
    /\ call' = [fn |-> "parse_folder_name", args |-> <<CacheNames[k]>>]
    /\ ret' = <<CachedResult(CacheNames[k], ParsedCacheNames[k])>>
    /\ CachedCall(CacheNames[k], ParsedCacheNames[k])
    /\ UNCHANGED <<mainVars, argVars, pdfVars, catalogVars, folders, new_products,
                   fcollected, folderVars, uploads, monitorVars, orderVars>>

NextCache == \E k \in 1..Len(CacheNames) : CallCached(k)

SpecCache == InitCache /\ [][NextCache]_vars

\* ------------------------------------ one folder, sequential and parallel
\* what the upload service does for an image, every time it is asked: it
\* raises, or it answers with a secure_url, with an empty secure_url, or
\* without one
FixedResponses == {"raise", "url", "emptyurl", "nourl"}

\* upload_to_cloudinary of populate_csv.py: one call, None when it raises
upload_to_cloudinary(out, f, img) ==
    IF out = "raise" THEN None ELSE GetSecureUrl(out, f, img)

\* if url: neither None nor ''
Truthy(url) == url # None /\ url # Empty

\* process_folder of populate_csv.py on discovered folder f of n png files,
\* service[img] being what the upload service does for image img
process_folder(f, n, service) ==
    LET imgs == EligibleImages(n)
        urls == [i \in 1..Len(imgs) |->
                    upload_to_cloudinary(service[imgs[i]], f, imgs[i])]
        kept == SelectSeq(urls, Truthy)
    IN [folder |-> f,
        name |-> StrVal(product_info(f)[1]),
        cost_price |-> StrVal(product_info(f)[2]),
        media |-> [i \in 1..MediaSlots |-> MediaSlot(urls, kept, i)]]

\* the upload services for folders of up to maxImages uploaded images
Services(maxImages) == [1..maxImages -> FixedResponses]

InitModes ==
    /\ InitWith(FALSE, <<>>)
    /\ max_retries = DefaultMaxRetries
    /\ env = FullEnvironment
    /\ \E service \in Services(MaxImages) :
          call = [fn |-> "process_folder", args |-> <<service>>]

\* product_data = process_folder(folder_path), on the folder of the run
CallProcessFolder ==
    /\ pc = "process"
    /\ call.fn = "process_folder"
    /\ ret = <<>>
    /\ Len(folders) = 1
    /\ ret' = <<process_folder(1, folders[1], call.args[1])>>
    /\ UNCHANGED <<runVars, cacheVars>>

\* the steps of a parallel run in which the upload service does the same for
\* an image every time
StepFixed ==
    \/ ParseArgs
    \/ ValidateConfig
    \/ CheckOutput
    \/ ReadCsv
    \/ \E f \in Folders : FolderStart(f)
    \/ \E f \in Folders : \E j \in 1..Len(uploads[f]) : UploadStart(f, j)
    \/ \E f \in Folders : \E j \in 1..Len(uploads[f]) :
          UploadAttempt(f, j, {call.args[1][uploads[f][j].image]})
    \/ \E f \in Folders : \E j \in 1..Len(uploads[f]) : CollectUpload(f, j)
    \/ \E f \in Folders : FolderAssemble(f)
    \/ AsCompletedStart
    \/ \E f \in Folders : CollectFolder(f)
    \/ Finish

\* a parallel run over one folder, and the sequential process_folder on that
\* folder
NextModes ==
    \/ ListFolders(1, MaxImages)
    \/ StepFixed
    \/ CallProcessFolder

SpecModes == InitModes /\ [][NextModes]_vars

\* ------------------------------------------ a folder with too many images
\* one folder that has 1 to MaxExtra eligible images more than media slots
CrowdedFolders ==
    {<<SkipLast + MediaSlots + extra>> : extra \in 1..MaxExtra}

\* the upload services that answer with a url, but for at most one image of
\* the first MediaSlots + MaxExtra, for which they raise every time
FailingOne ==
    {[img \in 1..(MediaSlots + MaxExtra) |->
         IF img = bad THEN "raise" ELSE "url"] :
       bad \in 0..(MediaSlots + MaxExtra)}

InitCrowded ==
    /\ InitWith(TRUE, OldCatalog)
    /\ max_retries = DefaultMaxRetries
    /\ env = FullEnvironment
    /\ \E service \in FailingOne :
          call = [fn |-> "process_folder", args |-> <<service>>]

\* the run is started with --max-folder-workers 1: there is one folder
NextCrowded ==
    \/ \E fl \in CrowdedFolders : ListThese(fl)
    \/ StepFixed /\ max_folder_workers' <= 1

SpecCrowded == InitCrowded /\ [][NextCrowded]_vars

\* ------------------------------------------------- main.py: all the PDFs
\* what converting a PDF comes to: its pages are saved; convert_from_path or
\* image.save raises; the output folder cannot be made
Conversions == {"converted", "failed", "raised"}

\* convert_pdf_to_images: True, or False from one of its except clauses
convert_pdf_to_images(conversion) == conversion = "converted"

\* a process_single_pdf whose except clause reports a success
process_single_pdf_lenient(conversion) ==
    [success |-> conversion \in {"converted", "raised"},
     pages |-> IF conversion = "converted" THEN 1 ELSE 0,
     error |-> IF conversion = "raised" THEN "str(e)" ELSE None]

\* process_single_pdf: the result dict; a converted PDF has one page
process_single_pdf(conversion) ==
    IF conversion = "raised"
       THEN [success |-> FALSE, pages |-> 0, error |-> "str(e)"]
       ELSE [success |-> convert_pdf_to_images(conversion),
             pages |-> IF convert_pdf_to_images(conversion) THEN 1 ELSE 0,
             error |-> None]

\* a PDF that nothing was done for yet
NewJob == [st |-> "queued", runs |-> 0, result |-> <<>>, counted |-> 0]

PdfJobs == 1..Len(pdf_jobs)

\* process_all_pdfs up to the loop over the PDFs: the source folder exists or
\* not and holds files, arg is --workers (<<>> for None), cpus is cpu_count()
ProcessAllPdfs(exists, files, arg, cpus) ==
    /\ pdf_pc = "none"
    /\ call' = [fn |-> "process_all_pdfs", args |-> <<exists, arg>>]
    /\ IF ~exists \/ files = <<>>
          THEN /\ pdf_pc' = "returned"
               /\ ret' = <<FALSE>>
               /\ pdf_files' = <<>>
               /\ UNCHANGED <<workers, pdf_jobs>>
          ELSE /\ workers' = IF arg = <<>> THEN Min(Len(files), cpus)
                                           ELSE Min(arg[1], Len(files))
               /\ pdf_pc' = IF workers' > 1 THEN "pool" ELSE "loop"
               /\ pdf_files' = files
               /\ pdf_jobs' = [i \in 1..Len(files) |-> NewJob]
               /\ UNCHANGED ret
    /\ UNCHANGED <<mainVars, argVars, successful, failed, total_pages,
                   catalogVars, folders, new_products, fcollected,
                   folderVars, uploads, monitorVars, cacheVars, orderVars>>

\* successful, failed and total_pages after a result is looked at
CountResult(result) ==
    IF result.success
       THEN /\ successful' = successful + 1
            /\ total_pages' = total_pages + result.pages
            /\ UNCHANGED failed
       ELSE /\ failed' = failed + 1
            /\ UNCHANGED <<successful, total_pages>>

\* a process of the pool takes the next job from the queue
PdfJobStart(i) ==
    /\ pdf_pc = "pool"
    /\ pdf_jobs[i].st = "queued"
    /\ \A k \in 1..(i - 1) : pdf_jobs[k].st # "queued"
    /\ Cardinality({k \in PdfJobs : pdf_jobs[k].st = "running"}) < workers
    /\ pdf_jobs' = [pdf_jobs EXCEPT ![i].st = "running"]
    /\ UNCHANGED <<mainVars, argVars, pdf_pc, pdf_files, workers, successful,
                   failed, total_pages, catalogVars, folders, new_products,
                   fcollected, folderVars, uploads, monitorVars, cacheVars,
                   callVars, orderVars>>

\* process_single_pdf returns in the pool's process
PdfJobFinish(i) ==
    /\ pdf_pc = "pool"
    /\ pdf_jobs[i].st = "running"
    /\ pdf_jobs' = [pdf_jobs EXCEPT
                       ![i].st = "done",
                       ![i].runs = @ + 1,
                       ![i].result = <<process_single_pdf(pdf_files[i])>>]
    /\ UNCHANGED <<mainVars, argVars, pdf_pc, pdf_files, workers, successful,
                   failed, total_pages, catalogVars, folders, new_products,
                   fcollected, folderVars, uploads, monitorVars, cacheVars,
                   callVars, orderVars>>

\* for future in as_completed(future_to_pdf): a finished job that was not
\* yielded yet is yielded and its result counted
PdfCollect(i) ==
    /\ pdf_pc = "pool"
    /\ pdf_jobs[i].st = "done"
    /\ pdf_jobs[i].counted = 0
    /\ pdf_jobs' = [pdf_jobs EXCEPT ![i].counted = @ + 1]
    /\ CountResult(pdf_jobs[i].result[1])
    /\ UNCHANGED <<mainVars, argVars, pdf_pc, pdf_files, workers,
                   catalogVars, folders, new_products, fcollected,
                   folderVars, uploads, monitorVars, cacheVars, callVars,
                   orderVars>>

\* for pdf_info in pdf_infos: the next PDF is processed in the calling
\* process and its result counted
PdfLoop(i) ==
    /\ pdf_pc = "loop"
    /\ pdf_jobs[i].counted = 0
    /\ \A k \in 1..(i - 1) : pdf_jobs[k].counted > 0
    /\ pdf_jobs' = [pdf_jobs EXCEPT
                       ![i].st = "done",
                       ![i].runs = @ + 1,
                       ![i].result = <<process_single_pdf(pdf_files[i])>>,
                       ![i].counted = @ + 1]
    /\ CountResult(process_single_pdf(pdf_files[i]))
    /\ UNCHANGED <<mainVars, argVars, pdf_pc, pdf_files, workers,
                   catalogVars, folders, new_products, fcollected,
                   folderVars, uploads, monitorVars, cacheVars, callVars,
                   orderVars>>

\* either loop is over: return failed == 0
PdfReturn ==
    /\ pdf_pc \in {"pool", "loop"}
    /\ \A i \in PdfJobs : pdf_jobs[i].counted > 0
    /\ pdf_pc' = "returned"
    /\ ret' = <<failed = 0>>
    /\ UNCHANGED <<mainVars, argVars, pdf_files, workers, pdf_jobs,
                   successful, failed, total_pages, catalogVars, folders,
                   new_products, fcollected, folderVars, uploads,
                   monitorVars, cacheVars, call, orderVars>>

NextPdfs ==
    \/ \E exists \in BOOLEAN : \E n \in 0..MaxPdfs :
       \E files \in [1..n -> Conversions] :
       \E arg \in {<<>>} \cup {<<w>> : w \in 0..MaxPdfWorkers} :
       \E cpus \in 1..MaxCpus : ProcessAllPdfs(exists, files, arg, cpus)
    \/ \E i \in PdfJobs : PdfJobStart(i)
    \/ \E i \in PdfJobs : PdfJobFinish(i)
    \/ \E i \in PdfJobs : PdfCollect(i)
    \/ \E i \in PdfJobs : PdfLoop(i)
    \/ PdfReturn

SpecPdfs == InitCache /\ [][NextPdfs]_vars

\* ------------------------------------------------------- a run end to end
\* a folder of 10 png files and a folder of 1 png file, in either order
EndToEndFolders == {<<SkipLast + MediaSlots, 1>>, <<1, SkipLast + MediaSlots>>}

\* the credentials are set and the catalog file is there
InitEndToEnd == Init /\ env = FullEnvironment /\ csv_exists

\* every upload call returns a url
NextEndToEnd ==
    \/ \E fl \in EndToEndFolders : ListThese(fl)
    \/ Step({"url"})

SpecEndToEnd == InitEndToEnd /\ [][NextEndToEnd]_vars

\* ------------------------------------------------- a run over an old catalog
\* name cells of the rows that are in the file before the run
OldNames == {<<"O", "L", "D">>, <<"N", "A">>}

\* cost_price cells of the rows that are in the file before the run: what
\* parse_folder_name gave for RS=1025.00, RS=10.5, RS=7 and for no pattern
OldCosts ==
    {<<"1", "0", "2", "5", ".", "0", "0">>, <<"1", "0", ".", "5">>, <<"7">>,
     <<>>}

\* the catalogs of up to OldRows rows
OldCatalogs ==
    UNION {{[k \in 1..n |-> CatalogRow(k, c[k][1], c[k][2])] :
               c \in [1..n -> OldNames \X OldCosts]} : n \in 0..OldRows}

\* a run that finds a catalog file
InitCatalog ==
    /\ \E rows \in OldCatalogs : InitWith(TRUE, rows)
    /\ env = FullEnvironment
    /\ call = NoCall
    /\ max_retries = DefaultMaxRetries

\* a run over at most one folder whose upload calls all return a url
NextCatalog == ListFolders(1, MaxUploads) \/ Step({"url"})

SpecCatalog == InitCatalog /\ [][NextCatalog]_vars

\* ------------------------------------------------------- a call that hangs
\* the upload futures of the run whose upload call never returns
Stuck ==
    UNION {{<<f, j>> : j \in {k \in 1..Len(uploads[f]) :
                                uploads[f][k].st = "stuck"}} :
           f \in Folders}

\* cloudinary.uploader.upload neither returns nor raises: the thread stays
\* in the call. At most one upload of a run does so
UploadStick(f, j) ==
    /\ uploads[f][j].st = "running"
    /\ Stuck = {}
    /\ uploads' = [uploads EXCEPT ![f][j].st = "stuck"]
    /\ UNCHANGED <<mainVars, argVars, pdfVars, catalogVars, folders, new_products,
                   fcollected, folderVars, monitorVars, cacheVars, callVars, orderVars>>

\* a run in which one upload call may hang; nothing is written before it
InitStuck == Init /\ ~csv_exists

\* the steps of the threads that are not inside a hanging call; every other
\* upload call returns a url at once
NextRunnable == ListFolders(MaxFolders, MaxUploads) \/ Step({"url"})

\* a run in which no upload call raises or hangs: the folder tasks and the
\* orchestrator that collects them
SpecOrchestrator == Init /\ [][NextRunnable]_vars

NextStuck ==
    \/ NextRunnable
    \/ \E f \in Folders : \E j \in 1..Len(uploads[f]) : UploadStick(f, j)

\* a thread that can take a step takes one: every run of the program is
\* finite, so fairness of the runnable steps together is fairness of each
SpecStuck == InitStuck /\ [][NextStuck]_vars /\ WF_vars(NextRunnable)

\* ------------------------------------------------------- fair scheduling
\* a run with its credentials and its catalog in place, in which every
\* upload call returns or raises
InitFair == Init /\ env = FullEnvironment /\ csv_exists

\* a thread that can take a step takes one: every run of the program is
\* finite, so fairness of the steps together is fairness of each
SpecFair == InitFair /\ [][Next]_vars /\ WF_vars(Next)

\* ------------------------------------------------- metrics under contention
\* the calls one thread of the stress run makes, MonCalls times over
StressOps == <<"update_folder", "update_images", "update_failed">>

StressCalls == Len(StressOps) * MonCalls

\* the call a thread makes after it has made calls calls
OpAt(calls) == StressOps[(calls % Len(StressOps)) + 1]

\* the attribute an update method adds to first
FirstField(op) ==
    CASE op = "update_folder" -> "processed_folders"
      [] op = "update_images" -> "processed_images"
      [] op = "update_failed" -> "failed_uploads"

\* what the method adds to the attribute: increment=1, upload_time
Increment(field) == IF field = "total_upload_time" THEN UploadTime ELSE 1

LockFreeAlways(l) == TRUE

\* with self.lock: the lock is taken only when no thread holds it
LockFree(l) == l = 0

\* a thread calls the next update method and enters its with self.lock block
StressAcquire(w) ==
    /\ stress[w].pc = "idle"
    /\ stress[w].calls < StressCalls
    /\ LockFree(lock)
    /\ lock' = w
    /\ stress' = [stress EXCEPT ![w].pc = "read",
                                ![w].field = FirstField(OpAt(stress[w].calls))]
    /\ UNCHANGED <<mainVars, argVars, pdfVars, catalogVars, folders, new_products,
                   fcollected, folderVars, uploads, perf_monitor, reader, cacheVars,
                   callVars,
                   orderVars>>

\* self.x += n, first half: the attribute is loaded
StressRead(w) ==
    /\ stress[w].pc = "read"
    /\ stress' = [stress EXCEPT ![w].pc = "write",
                                ![w].tmp = perf_monitor[stress[w].field]]
    /\ UNCHANGED <<mainVars, argVars, pdfVars, catalogVars, folders, new_products,
                   fcollected, folderVars, uploads, perf_monitor, lock,
                   reader, cacheVars, callVars, orderVars>>

\* self.x += n, second half: the sum is stored; update_images goes on to
\* total_upload_time, the other methods leave the with block
StressWrite(w) ==
    /\ stress[w].pc = "write"
    /\ perf_monitor' = [perf_monitor EXCEPT ![stress[w].field] =
                           stress[w].tmp + Increment(stress[w].field)]
    /\ stress' = IF stress[w].field = "processed_images"
                    THEN [stress EXCEPT ![w].pc = "read",
                                        ![w].field = "total_upload_time"]
                    ELSE [stress EXCEPT ![w].pc = "release"]
    /\ UNCHANGED <<mainVars, argVars, pdfVars, catalogVars, folders, new_products,
                   fcollected, folderVars, uploads, lock, reader, cacheVars, callVars,
                   orderVars>>

\* the with block ends: the lock is released and the call returns
StressRelease(w) ==
    /\ stress[w].pc = "release"
    /\ lock' = 0
    /\ stress' = [stress EXCEPT ![w].pc = "idle", ![w].calls = @ + 1,
                                ![w].field = "none", ![w].tmp = 0]
    /\ UNCHANGED <<mainVars, argVars, pdfVars, catalogVars, folders, new_products,
                   fcollected, folderVars, uploads, perf_monitor, reader, cacheVars,
                   callVars,
                   orderVars>>

\* MonThreads threads that call the update methods of one PerformanceMonitor
NextStress ==
    \/ \E w \in 1..MonThreads : StressAcquire(w)
    \/ \E w \in 1..MonThreads : StressRead(w)
    \/ \E w \in 1..MonThreads : StressWrite(w)
    \/ \E w \in 1..MonThreads : StressRelease(w)

\* the stress run is started with the credentials set
InitStress == Init /\ env = FullEnvironment

SpecStress == InitStress /\ [][NextStress]_vars

\* --------------------------------------------- snapshots under contention
\* the attributes get_stats loads inside its with block, in the order it
\* loads them: the two of avg_upload_time, then those of the dict
StatsReads ==
    <<"total_upload_time", "processed_images", "processed_folders",
      "processed_images", "failed_uploads", "processed_images">>

\* the lock holder's name for the thread that takes the snapshots
ReaderId == MonThreads + 1

\* the dict get_stats returns, from what it loaded; the average and the rate
\* are kept as the two numbers each is the quotient of
StatsOf(elapsed, reads) ==
    [elapsed_time |-> elapsed,
     folders_processed |-> reads[3],
     images_processed |-> reads[4],
     failed_uploads |-> reads[5],
     avg_upload_time |-> <<reads[1], IF reads[2] > 1 THEN reads[2] ELSE 1>>,
     images_per_second |-> <<reads[6], IF elapsed > 1 THEN elapsed ELSE 1>>]

\* get_stats is called: elapsed = time.time() - self.start_time
StatsEnter ==
    /\ reader.pc = "idle"
    /\ reader.calls < MaxSnapshots
    /\ reader' = [reader EXCEPT !.pc = "acquire",
                                !.elapsed = 1 - perf_monitor.start_time]
    /\ UNCHANGED <<mainVars, argVars, pdfVars, catalogVars, folders, new_products,
                   fcollected, folderVars, uploads, perf_monitor, lock,
                   stress, cacheVars, callVars, orderVars>>

\* get_stats enters its with self.lock block
StatsAcquire ==
    /\ reader.pc = "acquire"
    /\ LockFree(lock)
    /\ lock' = ReaderId
    /\ reader' = [reader EXCEPT !.pc = "read"]
    /\ UNCHANGED <<mainVars, argVars, pdfVars, catalogVars, folders, new_products,
                   fcollected, folderVars, uploads, perf_monitor, stress,
                   cacheVars, callVars, orderVars>>

\* get_stats loads the next attribute
StatsRead ==
    /\ reader.pc = "read"
    /\ Len(reader.reads) < Len(StatsReads)
    /\ reader' = [reader EXCEPT !.reads =
                     Append(@, perf_monitor[StatsReads[Len(@) + 1]])]
    /\ UNCHANGED <<mainVars, argVars, pdfVars, catalogVars, folders, new_products,
                   fcollected, folderVars, uploads, perf_monitor, lock,
                   stress, cacheVars, callVars, orderVars>>

\* get_stats returns the dict: the with block ends and the lock is released
StatsReturn ==
    /\ reader.pc = "read"
    /\ Len(reader.reads) = Len(StatsReads)
    /\ lock' = 0
    /\ call' = [fn |-> "get_stats", args |-> <<>>]
    /\ ret' = <<StatsOf(reader.elapsed, reader.reads)>>
    /\ reader' = [IdleReader EXCEPT !.calls = reader.calls + 1]
    /\ UNCHANGED <<mainVars, argVars, pdfVars, catalogVars, folders, new_products,
                   fcollected, folderVars, uploads, perf_monitor, stress,
                   cacheVars, orderVars>>

\* threads that call the update methods while another takes snapshots
NextStats ==
    \/ NextStress /\ \A w \in 1..MonThreads : stress'[w].calls <= MaxStatsUpdates
    \/ StatsEnter
    \/ StatsAcquire
    \/ StatsRead
    \/ StatsReturn

SpecStats == InitStress /\ [][NextStats]_vars

\* ------------------------------------------------ the record of one folder
\* an upload future that has resolved at its first call (ok), or after
\* max_retries calls that all raised
ResolvedUpload(f, i, img, ok) ==
    IF ok
       THEN [index |-> i, image |-> img, st |-> "done", attempt |-> 0,
             calls |-> 1, ret |-> SecureUrl(f, img), waits |-> <<>>,
             outcome |-> "returned"]
       ELSE [index |-> i, image |-> img, st |-> "done",
             attempt |-> DefaultMaxRetries - 1, calls |-> DefaultMaxRetries,
             ret |-> None,
             waits |-> [a \in 1..(DefaultMaxRetries - 1) |-> Backoff(a - 1)],
             outcome |-> "exhausted"]

\* a run over one folder of up to MediaSlots uploaded images, at the point
\* where upload_images_concurrently has collected the result of every
\* upload: any of them has given a url or has failed all its retries
InitSlots ==
    \E n \in 0..MediaSlots : \E ok \in [1..n -> BOOLEAN] :
       LET imgs == EligibleImages(n + SkipLast)
           futures == [i \in 1..n |-> ResolvedUpload(1, i, imgs[i], ok[i])]
       IN /\ pc = "process"
          /\ exit_status = <<>>
          /\ max_folder_workers = 1
          /\ max_image_workers = 1
          /\ max_retries = DefaultMaxRetries
          /\ env = FullEnvironment
          /\ folders = <<n + SkipLast>>
          /\ csv_exists = FALSE
          /\ csv_rows = <<>>
          /\ csv_writes = 0
          /\ df = <<>>
          /\ loaded = <<>>
          /\ new_products = <<>>
          /\ fstate = <<"uploading">>
          /\ image_files = <<imgs>>
          /\ uploads = <<futures>>
          /\ results = <<[i \in 1..n |-> futures[i].ret]>>
          /\ collected = <<1..n>>
          /\ media_urls = <<(<<>>)>>
          /\ product = <<(<<>>)>>
          /\ fcollected = {}
          /\ perf_monitor =
                [start_time |-> 0,
                 processed_folders |-> 0,
                 processed_images |-> Cardinality({i \in 1..n : ok[i]}),
                 failed_uploads |-> Cardinality({i \in 1..n : ~ok[i]}),
                 total_upload_time |->
                    UploadTime * Cardinality({i \in 1..n : ok[i]})]
          /\ lock = 0
          /\ stress = [w \in 1..MonThreads |-> IdleThread]
          /\ reader = IdleReader
          /\ call = NoCall
          /\ ret = <<>>
          /\ finished_futures = <<>>
          /\ as_completed = <<{}>>
          /\ cache = CacheMiss(<<>>, FolderName(1), product_info(1), maxsize)
          /\ cache_info = [hits |-> 0, misses |-> 1]
          /\ parse_calls = <<FolderName(1)>>
          /\ NoPdfRun

\* the folder task builds its record, the orchestrator takes it, the run ends
NextSlots ==
    \/ \E f \in Folders : FolderAssemble(f)
    \/ \E f \in Folders : CollectFolder(f)
    \/ Finish

SpecSlots == InitSlots /\ [][NextSlots]_vars

\* ------------------------------------------------------------------ claims
Futures(f) == 1..Len(uploads[f])

\* the futures of folder f whose upload returned a url
Survivors(f) == {j \in Futures(f) : uploads[f][j].ret # None}

\* C1: whatever the order in which the uploads of a folder complete, the
\* list upload_images_concurrently returns holds exactly the urls of the
\* uploads that gave one, each at its rank among them in input order; an
\* image that failed all its retries leaves no entry and no gap marker, so
\* the length is the number of successes
C1_UrlsInInputOrder ==
    \A f \in Folders :
       fstate[f] = "done" =>
          /\ Len(media_urls[f]) = Cardinality(Survivors(f))
          /\ \A p \in 1..Len(media_urls[f]) : media_urls[f][p] # None
          /\ \A j \in Survivors(f) :
                /\ uploads[f][j].ret = SecureUrl(f, image_files[f][j])
                /\ media_urls[f][Cardinality({k \in Survivors(f) : k <= j})]
                      = uploads[f][j].ret
          /\ \A j \in Futures(f) :
                uploads[f][j].outcome = "exhausted" =>
                   \A p \in 1..Len(media_urls[f]) :
                      media_urls[f][p] # SecureUrl(f, image_files[f][j])

\* three images, the middle one failed all its retries: two urls come back
C1_MiddleImageFailed ==
    \E f \in Folders :
       /\ fstate[f] = "done"
       /\ Len(uploads[f]) = 3
       /\ uploads[f][2].outcome = "exhausted"
       /\ media_urls[f] = <<SecureUrl(f, 1), SecureUrl(f, 3)>>

\* C2: with a retry budget of at least 1, an upload whose every call raises
\* makes exactly max_retries calls and returns None; an upload whose call
\* number k (from 0) is the first to return makes exactly k + 1 calls and
\* returns what that call gave, and no call follows
C2_AttemptsWithinBudget ==
    max_retries >= 1 =>
       \A f \in Folders : \A j \in Futures(f) :
          LET t == uploads[f][j] IN
          /\ t.calls <= max_retries
          /\ t.st = "running" => t.calls = t.attempt /\ t.attempt < max_retries
          /\ (t.st = "done" /\ t.outcome # "returned") =>
                /\ t.calls = max_retries
                /\ t.ret = None
                /\ t.outcome = "exhausted"
          /\ (t.st = "done" /\ t.outcome = "returned") =>
                /\ t.calls = t.attempt + 1
                /\ t.calls = Len(t.waits) + 1
                /\ t.ret \in {SecureUrl(f, t.image), None}

\* an upload has used up a budget of two or more calls
C2_BudgetExhausted ==
    \E f \in Folders : \E j \in Futures(f) :
       /\ max_retries >= 2
       /\ uploads[f][j].st = "done"
       /\ uploads[f][j].outcome = "exhausted"
       /\ uploads[f][j].calls = max_retries
       /\ uploads[f][j].ret = None

\* the sleeps of an upload that keeps failing
BackoffTable == <<1, 2, 4, 8, 16>>

\* C3: the sleep after failed attempt a (from 0) lasts 2^a, there is one
\* sleep per failed attempt but the last allowed one, and none after a call
\* that returned: two failures and a success have slept 1 + 2 = 3
C3_ExponentialBackoff ==
    \A f \in Folders : \A j \in Futures(f) :
       LET t == uploads[f][j] IN
       /\ t.waits = SubSeq(BackoffTable, 1, Len(t.waits))
       /\ t.st = "running" => Len(t.waits) = t.calls
       /\ (t.st = "done" /\ t.outcome \in {"returned", "exhausted"}) =>
             Len(t.waits) = t.calls - 1
       /\ (t.st = "done" /\ t.outcome = "returned" /\ t.calls = 3) =>
             SumSeq(t.waits) = 3

\* an upload returned a url at its third call, after sleeping 1 and 2
C3_TwoFailuresThenSuccess ==
    \E f \in Folders : \E j \in Futures(f) :
       /\ uploads[f][j].st = "done"
       /\ uploads[f][j].outcome = "returned"
       /\ uploads[f][j].ret # None
       /\ uploads[f][j].waits = <<1, 2>>

\* the upload futures of the run that used up their retries
Exhausted ==
    UNION {{<<f, j>> : j \in {k \in Futures(f) :
                                uploads[f][k].outcome = "exhausted"}} :
           f \in Folders}

\* C4: failed_uploads counts one per upload that used up its retries, not
\* one per failed call, and nothing for an upload that returned; such an
\* upload resolves to None and its folder task goes on, it never raises
C4_FailureCountedOnce ==
    /\ perf_monitor.failed_uploads = Cardinality(Exhausted)
    /\ \A fj \in Exhausted :
          /\ uploads[fj[1]][fj[2]].st = "done"
          /\ uploads[fj[1]][fj[2]].ret = None
          /\ uploads[fj[1]][fj[2]].calls = max_retries
          /\ fstate[fj[1]] \in {"uploading", "done"}

\* one image of a folder used up its retries, another succeeded, and the
\* folder task returned its record
C4_OneExhaustedFolderDone ==
    \E f \in Folders : \E j, k \in Futures(f) :
       /\ uploads[f][j].outcome = "exhausted"
       /\ uploads[f][k].outcome = "returned"
       /\ perf_monitor.failed_uploads = 1
       /\ fstate[f] = "done"

\* calls of op that the threads of the stress run have completed
RECURSIVE CallsOf(_, _)
CallsOf(op, calls) ==
    IF calls = 0 THEN 0
    ELSE (IF OpAt(calls - 1) = op THEN 1 ELSE 0) + CallsOf(op, calls - 1)

RECURSIVE CompletedBy(_, _)
CompletedBy(op, w) ==
    IF w = 0 THEN 0 ELSE CallsOf(op, stress[w].calls) + CompletedBy(op, w - 1)

\* C5: no update is lost: whenever no thread is inside an update, each
\* counter equals the number of completed calls of its method, and once
\* MonThreads threads have each made MonCalls calls of each method every
\* counter is MonThreads * MonCalls
C5_NoLostUpdate ==
    (\A w \in 1..MonThreads : stress[w].pc = "idle") =>
       /\ perf_monitor.processed_folders = CompletedBy("update_folder", MonThreads)
       /\ perf_monitor.processed_images = CompletedBy("update_images", MonThreads)
       /\ perf_monitor.total_upload_time
             = UploadTime * CompletedBy("update_images", MonThreads)
       /\ perf_monitor.failed_uploads = CompletedBy("update_failed", MonThreads)
       /\ (\A w \in 1..MonThreads : stress[w].calls = StressCalls) =>
             /\ perf_monitor.processed_folders = MonThreads * MonCalls
             /\ perf_monitor.processed_images = MonThreads * MonCalls
             /\ perf_monitor.failed_uploads = MonThreads * MonCalls

\* every thread has made all its calls
C5_AllCallsMade ==
    /\ \A w \in 1..MonThreads :
          stress[w].pc = "idle" /\ stress[w].calls = StressCalls
    /\ perf_monitor.processed_images = MonThreads * MonCalls
    /\ MonThreads >= 2

\* the folder tasks that raised
RaisedFolders == {f \in Folders : fstate[f] = "raised"}

\* C6 as claimed: a run that processed its folders exits with 0 exactly
\* when neither an upload failure nor a folder failure was recorded
C6_ExitZeroIffNothingFailed ==
    (pc = "exit" /\ Len(folders) > 0) =>
       (exit_status = <<0>>
          <=> (perf_monitor.failed_uploads = 0 /\ RaisedFolders = {}))

\* C6, amended: a run that processed its folders exits with 0 exactly when
\* every discovered folder gave a record, that is when no folder task
\* raised, and with 1 otherwise; upload failures counted in failed_uploads
\* do not change the exit status
C6_ExitZeroIffEveryFolderGaveRecord ==
    (pc = "exit" /\ Len(folders) > 0) =>
       /\ exit_status \in {<<0>>, <<1>>}
       /\ exit_status = <<0>> <=> RaisedFolders = {}
       /\ exit_status = <<0>> <=> Len(new_products) = Len(folders)

\* the run exits with 0 although an upload failed all its retries
C6_ExitZeroWithFailedUpload ==
    /\ pc = "exit"
    /\ exit_status = <<0>>
    /\ perf_monitor.failed_uploads > 0
    /\ Len(folders) > 0

ExpectedImages(n) ==
    IF n - SkipLast > MediaSlots THEN MediaSlots
    ELSE IF n > SkipLast THEN n - SkipLast ELSE 0

\* C8: a folder task that dispatched its uploads dispatched exactly one per
\* image, none for an empty list, and never more than min(W, number of
\* images) of them are running
C8_OneUploadPerImageAtMostW ==
    \A f \in Folders :
       fstate[f] \in {"uploading", "done"} =>
          /\ Len(image_files[f]) = ExpectedImages(folders[f])
          /\ Len(uploads[f]) = Len(image_files[f])
          /\ \A i \in 1..Len(image_files[f]) :
                Cardinality({j \in Futures(f) :
                    /\ uploads[f][j].index = i
                    /\ uploads[f][j].image = image_files[f][i]}) = 1
          /\ Cardinality(Running(f)) <= max_image_workers
          /\ Cardinality(Running(f)) <= Len(image_files[f])

\* three images and two workers: two uploads run, the third waits
C8_PoolFull ==
    \E f \in Folders :
       /\ Len(uploads[f]) = 3
       /\ max_image_workers = 2
       /\ Cardinality(Running(f)) = 2
       /\ uploads[f][3].st = "queued"

\* uploads of folders 1..n that are running
RECURSIVE RunningUpTo(_)
RunningUpTo(n) ==
    IF n = 0 THEN 0 ELSE Cardinality(Running(n)) + RunningUpTo(n - 1)

\* C9: at most F folder tasks are in flight, and at most F * W uploads are
\* in flight over all folders
C9_InFlightBounded ==
    /\ Cardinality({f \in Folders : fstate[f] = "uploading"})
          <= max_folder_workers
    /\ RunningUpTo(Len(folders)) <= max_folder_workers * max_image_workers

\* F = 2 and W = 1: two folder tasks and two uploads are in flight
C9_BoundReached ==
    /\ max_folder_workers = 2
    /\ max_image_workers = 1
    /\ Cardinality({f \in Folders : fstate[f] = "uploading"}) = 2
    /\ RunningUpTo(Len(folders)) = 2

\* C10: a folder has a record, or a record of it is in the result list,
\* only when every one of its uploads has resolved
C10_RecordAfterAllUploads ==
    \A f \in Folders :
       (\/ product[f] # <<>>
        \/ \E p \in 1..Len(new_products) : new_products[p].folder = f) =>
          /\ fstate[f] = "done"
          /\ \A j \in Futures(f) : uploads[f][j].st = "done"

\* the record of one folder is in the result list, all its uploads
\* resolved, while an upload of the other folder is still running
C10_RecordWhileOtherFolderUploads ==
    \E f, g \in Folders :
       /\ f # g
       /\ Len(uploads[f]) > 0
       /\ \E p \in 1..Len(new_products) : new_products[p].folder = f
       /\ Running(g) # {}

\* positions of the result list that hold the record of folder f
RecordsOf(f) == {p \in 1..Len(new_products) : new_products[p].folder = f}

\* C11: a folder task none of whose images gave a url, because every upload
\* failed all its retries or because there was no image to upload, returns
\* exactly one record whose 8 media slots are all empty, and that record is
\* collected; the run goes on: it ends only when every folder task has
\* resolved and was collected, each finished one with exactly one record
C11_FailedFolderStillYieldsRecord ==
    /\ \A f \in Folders :
          (fstate[f] = "done" /\ Survivors(f) = {}) =>
             /\ Len(product[f]) = 1
             /\ \A i \in 1..MediaSlots : product[f][1].media[i] = Empty
             /\ Cardinality(RecordsOf(f)) <= 1
             /\ f \in fcollected => Cardinality(RecordsOf(f)) = 1
    /\ (pc = "exit" /\ Len(folders) > 0) =>
          \A g \in Folders :
             /\ g \in fcollected
             /\ fstate[g] \in {"done", "raised"}
             /\ fstate[g] = "done" =>
                   /\ Cardinality(RecordsOf(g)) = 1
                   /\ \A j \in Futures(g) : uploads[g][j].st = "done"

\* the only image of one folder failed all its retries, the image of the
\* other folder was uploaded, and the run ended with a record for each
C11_AllFailedFolderBesideGoodOne ==
    \E f, g \in Folders :
       /\ pc = "exit"
       /\ Len(uploads[f]) > 0
       /\ \A j \in Futures(f) : uploads[f][j].outcome = "exhausted"
       /\ Survivors(g) # {}
       /\ Cardinality(RecordsOf(f)) = 1
       /\ Cardinality(RecordsOf(g)) = 1
       /\ \A i \in 1..MediaSlots : product[f][1].media[i] = Empty

\* the folder task of g has resolved and the orchestrator has taken its
\* result: its record, unless the task raised
Collected(g) ==
    /\ g \in fcollected
    /\ fstate[g] = "raised" \/ RecordsOf(g) # {}

\* folder g holds the upload whose call hangs
StuckIn(g) == \E fj \in Stuck : fj[1] = g

\* C12 as claimed: whatever the number of folder workers, every folder of a
\* run other than the one that holds the hanging upload is eventually
\* completed and collected
C12_OtherFoldersCompleteForAnyF ==
    (pc = "process") ~> (\A g \in Folders : Collected(g) \/ StuckIn(g))

\* C12, amended: with two or more folder workers, every folder other than
\* the one that holds the hanging upload is eventually completed and
\* collected; with one folder worker the folders queued behind the folder
\* of the hanging upload are never started
C12_OtherFoldersCompleteForTwoWorkers ==
    /\ (pc = "process" /\ max_folder_workers >= 2)
          ~> (\A g \in Folders : Collected(g) \/ StuckIn(g))
    /\ [](\A f \in Folders : \A g \in Folders :
             (max_folder_workers = 1 /\ StuckIn(f) /\ f < g) =>
                fstate[g] = "queued")

\* two folder workers: the upload of one folder hangs and the record of
\* another folder, which has uploaded an image, is collected
C12_OtherFolderCollectedBesideStuck ==
    \E f, g \in Folders :
       /\ f # g
       /\ max_folder_workers >= 2
       /\ StuckIn(f)
       /\ Survivors(g) # {}
       /\ Collected(g)

\* every folder task has resolved and none of its uploads is queued or running
AllResolved ==
    \A f \in Folders :
       /\ fstate[f] \in {"done", "raised"}
       /\ \A j \in Futures(f) : uploads[f][j].st = "done"

\* the catalog file is as it was when the run started
CatalogUntouched ==
    /\ csv_writes = 0
    /\ csv_rows = IF csv_exists THEN OldCatalog ELSE <<>>

\* C13 as claimed: a run that processed its folders has written the catalog
\* exactly once when it exits, and the catalog is never written while a
\* folder task or an upload is pending or in flight
C13_WrittenExactlyOnce ==
    /\ (pc = "exit" /\ Len(folders) > 0) => csv_writes = 1
    /\ csv_writes <= 1
    /\ csv_writes = 1 => AllResolved

\* C13, amended: the catalog is written at most once per run, exactly once
\* when at least one folder gave a record and not at all when none did; the
\* write happens only after every folder task and every upload has resolved
\* and every result was collected, and until then the file is untouched
C13_WrittenAtMostOnceAfterAllResolved ==
    /\ csv_writes <= 1
    /\ csv_writes = 1 =>
          /\ pc = "exit"
          /\ AllResolved
          /\ fcollected = Folders
          /\ new_products # <<>>
    /\ pc = "exit" => (csv_writes = 1 <=> new_products # <<>>)
    /\ pc # "exit" => CatalogUntouched

\* a run over two folders has ended: one folder task raised, the other gave
\* a record, and the catalog was written once
C13_WrittenOnceAfterRaisedFolder ==
    /\ pc = "exit"
    /\ Len(folders) = 2
    /\ RaisedFolders # {}
    /\ Len(new_products) = 1
    /\ csv_writes = 1

\* C14: once the catalog is saved, the rows that were in the file at load
\* time are a prefix of the saved file, cell for cell, and the new records
\* follow them in the order they were collected
C14_OldRowsUnchangedPrefix ==
    (pc = "exit" /\ csv_writes = 1) =>
       /\ Len(csv_rows) = Len(loaded) + Len(new_products)
       /\ SubSeq(csv_rows, 1, Len(loaded)) = loaded
       /\ \A p \in 1..Len(new_products) :
             csv_rows[Len(loaded) + p].folder = new_products[p].folder

\* C15: get_image_files on a folder of n files, whose names are their ranks
\* 1..n in name order, with skip_last = K: for n > K it returns the n - K
\* files of lowest rank, in rank order, and for n <= K the empty list
C15_FirstNMinusK ==
    (call.fn = "get_image_files" /\ ret # <<>>) =>
       LET n == Len(call.args[1])
           K == call.args[2]
       IN /\ n > K => ret[1] = [i \in 1..(n - K) |-> i]
          /\ n <= K => ret[1] = <<>>

\* the folder name s has the form RS=<number> - <name> from position i on:
\* RS=, the number up to position j, blanks, the - at position k, and after
\* it a name that is not blank
HasPattern(s, i, j, k) ==
    /\ i + 3 <= j /\ j < k /\ k < Len(s)
    /\ SubSeq(s, i, i + 2) = <<"R", "S", "=">>
    /\ \A p \in (i + 3)..j : s[p] \in Digit \cup {"."}
    /\ \A p \in (j + 1)..(k - 1) : s[p] \in {" ", "\t"}
    /\ s[k] = "-"
    /\ \E p \in (k + 1)..Len(s) : s[p] \notin {" ", "\t"}

\* C16: parse_folder_name has two outcomes. For a folder name of the form
\* RS=<number> - <name> it returns the number as the cost and the name
\* without blanks around it; for every other folder name it returns the name
\* as it is and the empty cost. It never returns a cost with the name as it
\* is, nor an empty product name
C16_TwoOutcomes ==
    (call.fn = "parse_folder_name" /\ ret # <<>> /\ call.args[1] # <<>>) =>
       LET s == call.args[1]
           product_name == ret[1][1]
           cost_price == ret[1][2]
           matches == {m \in (1..Len(s)) \X (1..Len(s)) \X (1..Len(s)) :
                          HasPattern(s, m[1], m[2], m[3])}
       IN /\ matches = {} => (product_name = s /\ cost_price = <<>>)
          /\ matches # {} =>
                \E m \in matches :
                   /\ cost_price = SubSeq(s, m[1] + 3, m[2])
                   /\ product_name # <<>>
                   /\ product_name[1] \notin {" ", "\t"}
                   /\ product_name[Len(product_name)] \notin {" ", "\t"}
                   /\ \E a \in (m[3] + 1)..Len(s) : \E b \in a..Len(s) :
                         /\ product_name = SubSeq(s, a, b)
                         /\ \A p \in ((m[3] + 1)..(a - 1)) \cup ((b + 1)..Len(s)) :
                               s[p] \in {" ", "\t"}
          /\ ~(cost_price # <<>> /\ product_name = s)
          /\ product_name # <<>>

\* C17: in a run in which a credential is not set, or is empty, the process
\* exits with status 1 at the validation: the catalog file is neither read
\* nor written, no folder is listed, no folder task and no upload is
\* started, and nothing is counted
C17_MissingCredentialAborts ==
    ((\E v \in required_vars : env[v] \in {None, Empty})
          /\ pc \notin {"args", "validate"}) =>
       /\ pc = "exit"
       /\ exit_status = <<1>>
       /\ df = <<>> /\ loaded = <<>>
       /\ CatalogUntouched
       /\ folders = <<>> /\ fstate = <<>> /\ uploads = <<>>
       /\ new_products = <<>>
       /\ perf_monitor = NewMonitor

\* the worker counts were accepted, one credential is the empty string, the
\* others are set, a catalog file exists, and the process has exited
C17_AbortedOnEmptyCredential ==
    /\ pc = "exit"
    /\ max_folder_workers >= 1 /\ max_image_workers >= 1
    /\ env["CLOUDINARY_API_SECRET"] = Empty
    /\ env["CLOUDINARY_API_KEY"] = "value"
    /\ env["CLOUDINARY_CLOUD_NAME"] = "value"
    /\ csv_exists
    /\ exit_status = <<1>>

\* C18: there is one folder future per discovered folder; the result list
\* holds at most one record per folder, only records of folder tasks that
\* returned and were collected, and none of a folder task that raised; when
\* process_folders_in_batches has returned, the list holds exactly one
\* record for each folder whose task did not raise
C18_OneRecordPerReturnedFolder ==
    /\ pc \in {"process", "exit"} => Len(fstate) = Len(folders)
    /\ \A p \in 1..Len(new_products) :
          /\ new_products[p].folder \in Folders
          /\ new_products[p].folder \in fcollected
          /\ fstate[new_products[p].folder] = "done"
          /\ new_products[p] = product[new_products[p].folder][1]
    /\ \A f \in Folders :
          /\ Cardinality(RecordsOf(f)) <= 1
          /\ fstate[f] = "raised" => RecordsOf(f) = {}
          /\ fstate[f] \in {"queued", "raised"} => uploads[f] = <<>>
    /\ (pc = "exit" /\ Len(folders) > 0) =>
          /\ Len(new_products) = Len(folders) - Cardinality(RaisedFolders)
          /\ \A f \in Folders \ RaisedFolders : Cardinality(RecordsOf(f)) = 1

\* the first folder task raised; the second uploaded an image and its
\* record is the only one when the run ends
C18_RaisedFolderBeforeGoodOne ==
    /\ pc = "exit"
    /\ Len(folders) = 2
    /\ fstate[1] = "raised"
    /\ Survivors(2) # {}
    /\ Len(new_products) = 1
    /\ new_products[1].folder = 2

\* a step of the orchestrator, and of no worker, that takes the future of
\* folder f from as_completed and appends its one record
OrchestratorAppends(f) ==
    /\ pc = "process"
    /\ f \notin fcollected
    /\ fcollected' = fcollected \cup {f}
    /\ fstate[f] = "done"
    /\ new_products' = Append(new_products, product[f][1])
    /\ UNCHANGED <<folderVars, uploads, monitorVars, finished_futures>>

\* the folder task of every record of the list finished before that of f
FinishedAfterAllOf(list, f) ==
    \A p \in 1..Len(list) :
       PositionIn(finished_futures, list[p].folder)
          < PositionIn(finished_futures, f)

\* C19: the record list changes only by a step of the orchestrator that
\* appends the one record of a folder task that has finished, and the tasks
\* of the records come in the order they finished; no worker step changes
\* the list, and no step appends two records
C19_OrchestratorAppendsInCompletionOrder ==
    [][new_products' # new_products =>
          \E f \in Folders :
             /\ OrchestratorAppends(f)
             /\ FinishedAfterAllOf(new_products, f)]_vars

\* C19, amended: the record list changes only by a step of the orchestrator
\* that appends the one record of a folder task that has finished, in the
\* order as_completed yields the tasks: the tasks that had finished when
\* the loop started in no fixed order, then the others in the order they
\* finished; no worker step changes the list, and no step appends two
\* records
C19_OrchestratorAppendsInYieldOrder ==
    [][new_products' # new_products =>
          \E f \in Folders :
             /\ OrchestratorAppends(f)
             /\ as_completed # <<>>
             /\ \/ f \in as_completed[1]
                \/ /\ as_completed[1] = {}
                   /\ \A g \in Folders :
                         (/\ fstate[g] \in {"done", "raised"}
                          /\ PositionIn(finished_futures, g)
                                < PositionIn(finished_futures, f))
                            => g \in fcollected]_vars

\* two folder tasks had finished when the loop started, and the record of
\* the one that finished last was appended first; a third record could
\* only follow them
C19_LaterTaskAppendedFirst ==
    /\ Len(new_products) = 2
    /\ as_completed = <<{}>>
    /\ PositionIn(finished_futures, new_products[1].folder)
          > PositionIn(finished_futures, new_products[2].folder)

\* the rows of the catalog file that were not in it when it was read
AppendedRows == SubSeq(csv_rows, Len(loaded) + 1, Len(csv_rows))

\* the urls of the first MediaSlots images of folder f, by file name: a
\* file is named by its rank
UrlsInImageOrder(f) == [i \in 1..MediaSlots |-> SecureUrl(f, i)]

\* C20: when a run over a folder of 10 images and a folder of 1 image, in
\* which every upload returns a url and both folder tasks return, has
\* ended, the catalog file holds exactly 2 rows more than were read: the
\* row of the folder of 10 images with the urls of its first 8 images, by
\* file name, in media_1..media_8, and the row of the folder of 1 image with
\* 8 empty media slots; and 8 uploads were made
C20_EndToEndTwoRows ==
    (/\ pc = "exit"
     /\ Len(folders) = 2
     /\ fcollected = Folders
     /\ RaisedFolders = {}) =>
       /\ csv_writes = 1
       /\ Len(AppendedRows) = 2
       /\ perf_monitor.processed_images = MediaSlots
       /\ perf_monitor.failed_uploads = 0
       /\ \E big, small \in Folders :
             /\ folders[big] = SkipLast + MediaSlots
             /\ folders[small] = 1
             /\ \E p, q \in 1..2 :
                   /\ p # q
                   /\ AppendedRows[p].folder = big
                   /\ AppendedRows[p].media = UrlsInImageOrder(big)
                   /\ AppendedRows[q].folder = small
                   /\ AppendedRows[q].media = [i \in 1..MediaSlots |-> Empty]

\* the run has ended with both rows written, the row of the folder of 1
\* image first, and the uploads of the other folder were not collected in
\* the order of the images
C20_SmallFolderRowFirst ==
    /\ pc = "exit"
    /\ Len(AppendedRows) = 2
    /\ folders = <<SkipLast + MediaSlots, 1>>
    /\ AppendedRows[1].folder = 2
    /\ AppendedRows[2].media[MediaSlots] = SecureUrl(1, MediaSlots)
    /\ max_image_workers = 2
    /\ exit_status = <<0>>

\* the distinct strings among the arguments of a sequence of calls
DistinctInputs(calls) == {calls[i] : i \in 1..Len(calls)}

\* the distinct strings of a sequence of calls, by their last use: the least
\* recently used one first
RECURSIVE ByLastUse(_)
ByLastUse(calls) ==
    IF calls = <<>> THEN <<>>
    ELSE LET last == calls[Len(calls)]
             before == ByLastUse(SubSeq(calls, 1, Len(calls) - 1))
         IN Append(SelectSeq(before, LAMBDA key : key # last), last)

\* the last n elements of s, all of s when it has fewer
LastOf(s, n) == SubSeq(s, IF Len(s) > n THEN Len(s) - n + 1 ELSE 1, Len(s))

\* C21: parse_folder_name is memoized with a bounded cache. Every call
\* returns what the function computes for its argument, and every cached
\* result is that of its key; each call is either a hit or a miss, and as
\* long as the calls made so far have no more distinct arguments than the
\* cache has room for, the misses (the computations) are as many as the
\* distinct arguments, so that a repeated argument is a hit. The cache never
\* holds more entries than its capacity, and it holds the most recently used
\* arguments: the one evicted is the least recently used.
C21_MemoizedWithLruEviction ==
    /\ Len(cache) <= maxsize
    /\ [i \in 1..Len(cache) |-> cache[i].key]
          = LastOf(ByLastUse(parse_calls), maxsize)
    /\ \A i \in 1..Len(cache) :
          cache[i].result = parse_folder_name(cache[i].key)
    /\ cache_info.hits + cache_info.misses = Len(parse_calls)
    /\ Cardinality(DistinctInputs(parse_calls)) <= maxsize
          => cache_info.misses = Cardinality(DistinctInputs(parse_calls))
    /\ (call.fn = "parse_folder_name" /\ ret # <<>>)
          => ret[1] = parse_folder_name(call.args[1])

\* C21 witness: a name is parsed, then another, then the first again (a
\* hit), then a third with the cache full: the second name is evicted and
\* the first, used more recently, is kept
C21_HitThenEviction ==
    /\ Len(parse_calls) = 4
    /\ parse_calls[1] = parse_calls[3]
    /\ parse_calls[2] # parse_calls[1]
    /\ parse_calls[4] \notin {parse_calls[1], parse_calls[2]}
    /\ cache_info = [hits |-> 1, misses |-> 3]
    /\ CacheFind(cache, parse_calls[1]) > 0
    /\ CacheFind(cache, parse_calls[2]) = 0
    /\ Len(cache) = maxsize

\* no thread is inside an update method
UpdatersIdle == \A w \in 1..MonThreads : stress[w].pc = "idle"

\* the counters as the update calls that have returned make them
CountersOfUpdates ==
    [processed_folders |-> CompletedBy("update_folder", MonThreads),
     processed_images |-> CompletedBy("update_images", MonThreads),
     failed_uploads |-> CompletedBy("update_failed", MonThreads),
     total_upload_time |-> UploadTime * CompletedBy("update_images", MonThreads)]

\* C22: get_stats is a read-only snapshot. However many snapshots were
\* taken, start_time is what __init__ set and, whenever no update is in
\* progress, each counter is what the completed updates made it. While
\* get_stats loads the attributes it holds the lock, no update is in
\* progress, and every value it has loaded is the current one, so all of
\* them are of one state between two updates; the dict it returns is not
\* torn: the upload time under the average belongs to the images count.
C22_GetStatsReadOnlySnapshot ==
    /\ perf_monitor.start_time = NewMonitor.start_time
    /\ UpdatersIdle =>
          \A field \in DOMAIN CountersOfUpdates :
             perf_monitor[field] = CountersOfUpdates[field]
    /\ reader.pc = "read" =>
          /\ lock = ReaderId
          /\ UpdatersIdle
          /\ \A i \in 1..Len(reader.reads) :
                reader.reads[i] = perf_monitor[StatsReads[i]]
    /\ (call.fn = "get_stats" /\ ret # <<>>) =>
          /\ ret[1].avg_upload_time[1] = UploadTime * ret[1].images_processed
          /\ ret[1].avg_upload_time[2]
                = (IF ret[1].images_processed > 1
                      THEN ret[1].images_processed ELSE 1)
          /\ ret[1].images_per_second[1] = ret[1].images_processed

\* C22 witness: the last of several snapshots was taken between updates: it
\* shows uploaded images, and more were counted after it
C22_SnapshotBetweenUpdates ==
    /\ reader.calls = MaxSnapshots
    /\ MaxSnapshots >= 2
    /\ ret # <<>>
    /\ ret[1].images_processed >= 1
    /\ perf_monitor.processed_images > ret[1].images_processed
    /\ perf_monitor.processed_folders > ret[1].folders_processed

\* the PDFs whose result the loop has looked at
CountedPdfs == {i \in PdfJobs : pdf_jobs[i].counted > 0}

\* C23: a PDF whose conversion fails, or whose output folder cannot be
\* made, is counted as failed and the others go on. While process_all_pdfs
\* runs over at least one PDF, no PDF is processed or counted twice and the
\* counters are those of the PDFs counted so far; when it returns, every
\* PDF was processed once and counted once, successful + failed is the
\* number of PDFs, and it returns True exactly when failed = 0, which is
\* when every PDF converted. This is so with a pool and with one worker.
C23_EveryPdfCountedOnce ==
    pdf_files # <<>> =>
       /\ \A i \in PdfJobs :
             /\ pdf_jobs[i].runs <= 1
             /\ pdf_jobs[i].counted <= 1
             /\ pdf_jobs[i].counted = 1 => pdf_jobs[i].runs = 1
       /\ successful
             = Cardinality({i \in CountedPdfs : pdf_files[i] = "converted"})
       /\ failed
             = Cardinality({i \in CountedPdfs : pdf_files[i] # "converted"})
       /\ pdf_pc = "returned" =>
             /\ \A i \in PdfJobs :
                   pdf_jobs[i].runs = 1 /\ pdf_jobs[i].counted = 1
             /\ successful + failed = Len(pdf_files)
             /\ ret = <<failed = 0>>
             /\ ret = <<TRUE>> <=>
                   \A i \in PdfJobs : pdf_files[i] = "converted"

\* C23 witness: a pool of two processes has gone over three PDFs, the first
\* of which did not convert and the second of which had no output folder
C23_PooledRunWithFailures ==
    /\ pdf_pc = "returned"
    /\ workers = 2
    /\ pdf_files = <<"failed", "raised", "converted">>
    /\ successful = 1
    /\ failed = 2
    /\ ret = <<FALSE>>

\* the upload tasks dispatched so far, and those of them that have resolved
Dispatched == UNION {{<<f, j>> : j \in Futures(f)} : f \in Folders}

Resolved == {fj \in Dispatched : uploads[fj[1]][fj[2]].st = "done"}

ResolvedAs(outcome) ==
    {fj \in Resolved : uploads[fj[1]][fj[2]].outcome = outcome}

\* C24: every resolved upload task has added 1 to exactly one of
\* processed_images and failed_uploads: a resolved task either returned from
\* an upload call or used up its retries, processed_images is the number of
\* the former and failed_uploads that of the latter, whatever number of
\* failed attempts the tasks have made so far, so that processed_images +
\* failed_uploads is the number of resolved tasks, and, once all have
\* resolved, the number of tasks dispatched.
C24_OneCounterPerResolvedTask ==
    /\ Resolved = ResolvedAs("returned") \cup ResolvedAs("exhausted")
    /\ perf_monitor.processed_images = Cardinality(ResolvedAs("returned"))
    /\ perf_monitor.failed_uploads = Cardinality(ResolvedAs("exhausted"))
    /\ perf_monitor.processed_images + perf_monitor.failed_uploads
          = Cardinality(Resolved)
    /\ Resolved = Dispatched =>
          perf_monitor.processed_images + perf_monitor.failed_uploads
             = Cardinality(Dispatched)

\* C24 witness: both tasks of a folder have resolved, one at its first call
\* and one after two attempts that were retried and a last one that failed
C24_RetriedThenCounted ==
    /\ Cardinality(Dispatched) = 2
    /\ Resolved = Dispatched
    /\ \E fj \in Resolved :
          /\ uploads[fj[1]][fj[2]].outcome = "exhausted"
          /\ Len(uploads[fj[1]][fj[2]].waits) = 2
    /\ perf_monitor.processed_images = 1
    /\ perf_monitor.failed_uploads = 1

\* the media slots of the records of the finished folder tasks that hold a
\* url
FilledSlots ==
    UNION {{<<f, i>> : i \in {k \in 1..MediaSlots :
                                 product[f][1].media[k] # Empty}} :
           f \in {g \in Folders : fstate[g] = "done"}}

\* C25: upload_to_cloudinary_with_retry returns None only after it has
\* counted a failure: for every retry budget and every response, the
\* resolved tasks that gave None are as many as failed_uploads and each of
\* them used up its retries, a task whose upload call returned gave a url,
\* and once every folder task is done the filled media slots are as many as
\* processed_images.
C25_NoneOnlyAfterCountedFailure ==
    /\ \A fj \in Resolved :
          /\ uploads[fj[1]][fj[2]].ret = None
                => uploads[fj[1]][fj[2]].outcome = "exhausted"
          /\ uploads[fj[1]][fj[2]].outcome = "returned"
                => uploads[fj[1]][fj[2]].ret # None
    /\ perf_monitor.failed_uploads
          = Cardinality({fj \in Resolved : uploads[fj[1]][fj[2]].ret = None})
    /\ (Folders # {} /\ \A f \in Folders : fstate[f] = "done")
          => Cardinality(FilledSlots) = perf_monitor.processed_images

\* C26: for one folder and an upload service that does the same for an
\* image every time, the record the parallel folder task returns, whatever
\* the worker counts, is field for field the record the sequential
\* process_folder returns, also when an upload gives an empty url.
C26_SequentialAndParallelRecordsEqual ==
    \A f \in Folders :
       (fstate[f] = "done" /\ call.fn = "process_folder" /\ ret # <<>>)
          => product[f][1] = ret[1]

\* the same, for upload services that never answer with an empty url
C26_RecordsEqualWithoutEmptyUrl ==
    (call.fn = "process_folder"
       /\ \A img \in DOMAIN call.args[1] : call.args[1][img] # "emptyurl")
       => C26_SequentialAndParallelRecordsEqual

\* the images of folder f that are not among the last SkipLast of its files
\* (a file is named by its rank)
EligibleCount(f) ==
    IF folders[f] > SkipLast THEN folders[f] - SkipLast ELSE 0

\* C27: at most 8 upload tasks are dispatched for a folder. From the moment
\* the folder task has submitted its uploads, they are one per image of the
\* first 8 eligible images and of no other, whatever becomes of them; the
\* record of the folder holds urls of these images only, one per upload
\* that returned, so that a failed one leaves a slot empty even if the
\* folder has a ninth eligible image.
C27_AtMostEightUploadsPerFolder ==
    \A f \in Folders :
       fstate[f] \in {"uploading", "done"} =>
          /\ Len(uploads[f]) = Min(MediaSlots, EligibleCount(f))
          /\ Len(uploads[f]) <= MediaSlots
          /\ \A j \in Futures(f) : uploads[f][j].image = j
          /\ fstate[f] = "done" =>
                /\ \A i \in 1..MediaSlots :
                      product[f][1].media[i]
                         \in {Empty}
                             \cup {SecureUrl(f, img) : img \in 1..MediaSlots}
                /\ Cardinality({i \in 1..MediaSlots :
                                  product[f][1].media[i] # Empty})
                      = Cardinality({j \in Futures(f) :
                                       uploads[f][j].outcome = "returned"})

\* C27 witness: a folder with more than 8 eligible images, one of whose
\* first 8 used up its retries: 8 uploads were made, the record has 7 urls
\* and an empty eighth slot
C27_NinthImageNotUploaded ==
    \E f \in Folders :
       /\ fstate[f] = "done"
       /\ EligibleCount(f) > MediaSlots
       /\ Len(uploads[f]) = MediaSlots
       /\ \E j \in Futures(f) : uploads[f][j].outcome = "exhausted"
       /\ product[f][1].media[MediaSlots - 1] # Empty
       /\ product[f][1].media[MediaSlots] = Empty

\* the folder tasks that returned their record
ReturnedFolders == {f \in Folders : fstate[f] = "done"}

\* C28: processed_folders is incremented once per folder task that builds
\* its record, after all uploads of the folder resolved, and not for a task
\* that is still at work or that raised: it is the number of folder tasks
\* that returned, each of which has its record and only resolved uploads.
\* When process_folders_in_batches returns, it equals the number of records
\* in the returned list.
C28_FoldersCountedOncePerRecord ==
    /\ perf_monitor.processed_folders = Cardinality(ReturnedFolders)
    /\ \A f \in ReturnedFolders :
          /\ Len(product[f]) = 1
          /\ \A j \in Futures(f) : uploads[f][j].st = "done"
    /\ (pc = "process" /\ AllFoldersCollected(fcollected, Len(folders)))
          => perf_monitor.processed_folders = Len(new_products)
    /\ (pc = "exit" /\ Len(folders) > 0)
          => perf_monitor.processed_folders = Len(new_products)

\* C28 witness: of two folder tasks the first returned a record with an
\* uploaded image and the second raised: one folder is counted and the
\* returned list has one record
C28_OneCountedOneRaised ==
    /\ pc = "process"
    /\ AllFoldersCollected(fcollected, Len(folders))
    /\ Len(folders) = 2
    /\ fstate[1] = "done"
    /\ Survivors(1) # {}
    /\ fstate[2] = "raised"
    /\ perf_monitor.processed_folders = 1
    /\ Len(new_products) = 1

\* every discovered folder has resolved: its task returned or raised, and
\* every upload it dispatched has returned a url or None
EveryFolderResolved ==
    \A f \in Folders :
       /\ fstate[f] \in {"done", "raised"}
       /\ \A j \in Futures(f) : uploads[f][j].st = "done"

\* no thread of a pool is at work and no task is waiting for one
PoolsDrained ==
    /\ InFlightFolders = {}
    /\ \A f \in Folders : fstate[f] # "queued" /\ Running(f) = {}

\* C29: when every upload call returns or raises, every fairly scheduled
\* run terminates, for every number of folders and of workers: no upload
\* task ever makes more than max_retries calls, and the run reaches its exit
\* with every discovered folder resolved, both pools drained and every
\* folder future collected.
C29_EveryRunTerminates ==
    /\ [](\A f \in Folders : \A j \in Futures(f) :
            uploads[f][j].calls <= max_retries)
    /\ <>(pc = "exit")
    /\ [](pc = "exit" =>
            /\ EveryFolderResolved
            /\ PoolsDrained
            /\ (Folders # {} => AllFoldersCollected(fcollected, Len(folders))))

\* C29 witness: a run over two folders has ended after an upload of one of
\* them used up its retries and an upload of the other returned a url
C29_EndedAfterRetries ==
    /\ pc = "exit"
    /\ Len(folders) = 2
    /\ \E f \in Folders :
          /\ \E j \in Futures(f) : uploads[f][j].outcome = "exhausted"
          /\ \E g \in Folders \ {f} : Survivors(g) # {}

====
